---------------------------- MODULE Spec2Model ----------------------------
(***************************************************************************)
(* Model of ApiGenericaFastAPI: the service layer (ServicioCrud,           *)
(* ServicioConsultas, PoliticaTablasProhibidas), the per-engine read and   *)
(* query repositories, and the query endpoint.                             *)
(*                                                                         *)
(* A Python str is a sequence of one-character strings; None, where a      *)
(* parameter is `str | None`, is the one-element sequence NoneStr, whose   *)
(* element is not a character.  Other Python values are tagged records     *)
(* [t |-> <type>, v |-> <value>].                                          *)
(***************************************************************************)
EXTENDS Integers, Sequences, FiniteSets, TLC

VARIABLES
    tablas_prohibidas,  \* settings.security.tablas_prohibidas (the raw string)
    motor,              \* engine family of the configured repository
    peticion,           \* the call being served: operation and arguments
    resultado,          \* what the call returned or raised
    llamadas,           \* calls made on the layer below: by the service on the
                        \* repository, by a repository on the provider and driver
    sentencias          \* statements sent to the engine: SQL text and bound values

vars == <<tablas_prohibidas, motor, peticion, resultado, llamadas, sentencias>>

-----------------------------------------------------------------------------
(* Python str operations on sequences of characters.                       *)

NoneStr == <<"None">>

Mayusculas ==
    <<"A","B","C","D","E","F","G","H","I","J","K","L","M",
      "N","O","P","Q","R","S","T","U","V","W","X","Y","Z">>

Minusculas ==
    <<"a","b","c","d","e","f","g","h","i","j","k","l","m",
      "n","o","p","q","r","s","t","u","v","w","x","y","z">>

Digitos == {"0","1","2","3","4","5","6","7","8","9"}

Espacios == {" ", "\t", "\n"}

LowerChar(c) ==
    IF \E i \in 1..Len(Mayusculas) : Mayusculas[i] = c
    THEN Minusculas[CHOOSE i \in 1..Len(Mayusculas) : Mayusculas[i] = c]
    ELSE c

UpperChar(c) ==
    IF \E i \in 1..Len(Minusculas) : Minusculas[i] = c
    THEN Mayusculas[CHOOSE i \in 1..Len(Minusculas) : Minusculas[i] = c]
    ELSE c

\* str.lower()
Lower(s) == [i \in 1..Len(s) |-> LowerChar(s[i])]

\* str.upper()
Upper(s) == [i \in 1..Len(s) |-> UpperChar(s[i])]

RECURSIVE LStrip(_)
LStrip(s) ==
    IF s # <<>> /\ Head(s) \in Espacios THEN LStrip(Tail(s)) ELSE s

RECURSIVE RStrip(_)
RStrip(s) ==
    IF s # <<>> /\ s[Len(s)] \in Espacios
    THEN RStrip(SubSeq(s, 1, Len(s) - 1))
    ELSE s

\* str.strip()
Strip(s) == RStrip(LStrip(s))

\* str.startswith(p)
StartsWith(s, p) == Len(s) >= Len(p) /\ SubSeq(s, 1, Len(p)) = p

\* `p in s` for two str
Contiene(s, p) ==
    \E i \in 0..(Len(s) - Len(p)) : SubSeq(s, i + 1, i + Len(p)) = p

\* str.split(sep) for a one-character separator
RECURSIVE Split(_, _)
Split(s, sep) ==
    IF \E i \in 1..Len(s) : s[i] = sep
    THEN LET i == CHOOSE k \in 1..Len(s) :
                      s[k] = sep /\ \A j \in 1..(k - 1) : s[j] # sep
         IN  <<SubSeq(s, 1, i - 1)>> \o Split(SubSeq(s, i + 1, Len(s)), sep)
    ELSE <<s>>

\* `not s or not s.strip()` for s : str | None
EsBlanco(s) == s = NoneStr \/ s = <<>> \/ Strip(s) = <<>>

Rango(seq) == {seq[i] : i \in 1..Len(seq)}


-----------------------------------------------------------------------------
(* Python values other than str parameters: tagged records.                *)

PyNone == [t |-> "None"]

PyInt(n) == [t |-> "int", v |-> n]

PyStr(s) == [t |-> "str", v |-> s]

PyBool(b) == [t |-> "bool", v |-> b]

\* What a call does: it raises, or it returns a value.
Lanza(excepcion) == [tipo |-> excepcion]

Retorna(valor) == [tipo |-> "ok", valor |-> valor]

-----------------------------------------------------------------------------
(* servicios/utilidades/encriptacion_bcrypt.py.  bcrypt itself is a        *)
(* library: a hash is the text "$2b$12$" followed by one token that stands *)
(* for the salt and the digest of (salt, plaintext).                       *)

COSTO_POR_DEFECTO == 12

Sales == {"s1", "s2"}

PrefijoBcrypt == <<"$", "2", "b", "$", "1", "2", "$">>

HashCon(valor_original, sal) == PrefijoBcrypt \o <<ToString(<<sal, valor_original>>)>>

\* encriptar raises ValueError on a blank value; gensalt() draws the salt.
encriptar_lanza(valor_original) == EsBlanco(valor_original)

encriptar(valor_original, sal) == HashCon(valor_original, sal)

\* verificar(valor_original, hash_existente), for non-blank arguments
verificar(valor_original, hash_existente) ==
    \E sal \in Sales : hash_existente = HashCon(valor_original, sal)

-----------------------------------------------------------------------------
(* servicios/politicas/politica_tablas_prohibidas.py                       *)

\* PoliticaTablasProhibidas.__init__: the set built from the settings string
politica_tablas_prohibidas ==
    IF tablas_prohibidas = <<>>
    THEN {}
    ELSE {Lower(Strip(t)) : t \in {x \in Rango(Split(tablas_prohibidas, ",")) :
                                        Strip(x) # <<>>}}

es_tabla_permitida_sin_lower(nombre_tabla) ==
    IF EsBlanco(nombre_tabla)
    THEN FALSE
    ELSE Strip(nombre_tabla) \notin politica_tablas_prohibidas

es_tabla_permitida_sin_strip(nombre_tabla) ==
    IF EsBlanco(nombre_tabla)
    THEN FALSE
    ELSE Lower(nombre_tabla) \notin politica_tablas_prohibidas

es_tabla_permitida(nombre_tabla) ==
    IF EsBlanco(nombre_tabla)
    THEN FALSE
    ELSE Strip(Lower(nombre_tabla)) \notin politica_tablas_prohibidas

-----------------------------------------------------------------------------
(* servicios/servicio_crud.py.  Each operation yields what it raised or    *)
(* returned and the calls it made on the repository.                       *)

SinLlamada(excepcion) == [resultado |-> Lanza(excepcion), llamadas |-> <<>>]

\* esquema.strip() if esquema and esquema.strip() else None
NormalizarOpcional(s) == IF EsBlanco(s) THEN NoneStr ELSE Strip(s)

\* limite if limite and limite > 0 else None
NormalizarLimite(limite) ==
    IF limite.t = "int" /\ limite.v # 0 /\ limite.v > 0 THEN limite ELSE PyNone

ServicioCrud_listar(nombre_tabla, esquema, limite, retorno) ==
    IF EsBlanco(nombre_tabla) THEN SinLlamada("ValueError")
    ELSE IF ~es_tabla_permitida(nombre_tabla) THEN SinLlamada("PermissionError")
    ELSE [resultado |-> retorno,
          llamadas  |-> <<[metodo |-> "obtener_filas",
                           nombre_tabla |-> nombre_tabla,
                           esquema |-> NormalizarOpcional(esquema),
                           limite |-> NormalizarLimite(limite)]>>]

ServicioCrud_obtener_por_clave(nombre_tabla, nombre_clave, valor, esquema, retorno) ==
    IF EsBlanco(nombre_tabla) \/ EsBlanco(nombre_clave) \/ EsBlanco(valor)
    THEN SinLlamada("ValueError")
    ELSE IF ~es_tabla_permitida(nombre_tabla) THEN SinLlamada("PermissionError")
    ELSE [resultado |-> retorno,
          llamadas  |-> <<[metodo |-> "obtener_por_clave",
                           nombre_tabla |-> nombre_tabla,
                           nombre_clave |-> Strip(nombre_clave),
                           valor |-> Strip(valor),
                           esquema |-> NormalizarOpcional(esquema)]>>]

ServicioCrud_crear(nombre_tabla, datos, esquema, campos_encriptar, retorno) ==
    IF EsBlanco(nombre_tabla) \/ datos = <<>>
    THEN SinLlamada("ValueError")
    ELSE IF ~es_tabla_permitida(nombre_tabla) THEN SinLlamada("PermissionError")
    ELSE [resultado |-> retorno,
          llamadas  |-> <<[metodo |-> "crear",
                           nombre_tabla |-> nombre_tabla,
                           datos |-> datos,
                           esquema |-> NormalizarOpcional(esquema),
                           campos_encriptar |-> NormalizarOpcional(campos_encriptar)]>>]

ServicioCrud_actualizar(nombre_tabla, nombre_clave, valor_clave, datos, esquema, campos_encriptar, retorno) ==
    IF EsBlanco(nombre_tabla) \/ EsBlanco(nombre_clave) \/ EsBlanco(valor_clave)
       \/ datos = <<>>
    THEN SinLlamada("ValueError")
    ELSE IF ~es_tabla_permitida(nombre_tabla) THEN SinLlamada("PermissionError")
    ELSE [resultado |-> retorno,
          llamadas  |-> <<[metodo |-> "actualizar",
                           nombre_tabla |-> nombre_tabla,
                           nombre_clave |-> Strip(nombre_clave),
                           valor_clave |-> Strip(valor_clave),
                           datos |-> datos,
                           esquema |-> NormalizarOpcional(esquema),
                           campos_encriptar |-> NormalizarOpcional(campos_encriptar)]>>]

ServicioCrud_eliminar(nombre_tabla, nombre_clave, valor_clave, esquema, retorno) ==
    IF EsBlanco(nombre_tabla) \/ EsBlanco(nombre_clave) \/ EsBlanco(valor_clave)
    THEN SinLlamada("ValueError")
    ELSE IF ~es_tabla_permitida(nombre_tabla) THEN SinLlamada("PermissionError")
    ELSE [resultado |-> retorno,
          llamadas  |-> <<[metodo |-> "eliminar",
                           nombre_tabla |-> nombre_tabla,
                           nombre_clave |-> Strip(nombre_clave),
                           valor_clave |-> Strip(valor_clave),
                           esquema |-> NormalizarOpcional(esquema)]>>]

\* retorno is what the repository's obtener_hash_contrasena does: it raises, or
\* returns the stored hash or None.
ServicioCrud_verificar_contrasena(nombre_tabla, campo_usuario, campo_contrasena, valor_usuario, valor_contrasena, esquema, retorno) ==
    IF EsBlanco(nombre_tabla) \/ EsBlanco(campo_usuario) \/ EsBlanco(campo_contrasena)
       \/ EsBlanco(valor_usuario)
       \/ valor_contrasena = NoneStr \/ valor_contrasena = <<>>
    THEN SinLlamada("ValueError")
    ELSE IF ~es_tabla_permitida(nombre_tabla) THEN SinLlamada("PermissionError")
    ELSE [resultado |->
              IF retorno.tipo # "ok" THEN retorno
              ELSE IF retorno.valor = NoneStr THEN Retorna(404)
              ELSE IF EsBlanco(valor_contrasena) \/ EsBlanco(retorno.valor)
                   THEN Lanza("ValueError")
              ELSE IF verificar(valor_contrasena, retorno.valor) THEN Retorna(200)
              ELSE Retorna(401),
          llamadas  |-> <<[metodo |-> "obtener_hash_contrasena",
                           nombre_tabla |-> nombre_tabla,
                           campo_usuario |-> Strip(campo_usuario),
                           campo_contrasena |-> Strip(campo_contrasena),
                           valor_usuario |-> Strip(valor_usuario),
                           esquema |-> NormalizarOpcional(esquema)]>>]

-----------------------------------------------------------------------------
(* Inputs of the service layer.                                            *)

T_aud == <<"a", "u", "d">>

T_AUD == <<"A", "U", "D">>

T_Aud == <<"A", "u", "d">>

T_prod == <<"p", "r", "o", "d">>

T_cfg == <<"c", "f", "g">>

T_id == <<"i", "d">>

\* TABLAS_PROHIBIDAS of .env: "", "aud", " Aud ,cfg", "cfg,,"
CadenasTablasProhibidas ==
    { <<>>,
      T_aud,
      <<" ">> \o T_Aud \o <<" ", ",">> \o T_cfg,
      T_cfg \o <<",", ",">> }

NombresTabla == { <<>>, <<" ">>, T_aud, T_AUD, T_Aud, <<" ">> \o T_aud, T_prod }

Claves == { <<>>, T_id, T_id \o <<" ">> }

Esquemas == { NoneStr, <<" ">>, <<"v">> }

Limites == { PyNone, PyInt(0), PyInt(-1), PyInt(5) }

DatosServicio == { <<>>, <<[k |-> <<"c">>, v |-> PyStr(<<"x">>)]>> }

Contrasenas == { <<>>, <<"p", "w">> }

\* What the repository behind the service does with a delegated call.
RetornosRepositorio == { Retorna(1), Lanza("RuntimeError") }

RetornosHash ==
    { Retorna(NoneStr), Lanza("RuntimeError") }
    \cup { Retorna(HashCon(c, "s1")) : c \in {<<"p", "w">>, <<"x">>} }

PeticionNinguna == [op |-> "ninguna"]

ResultadoNinguno == [tipo |-> "ninguno"]

-----------------------------------------------------------------------------
(* The CRUD service: one action per operation of ServicioCrud.             *)

\* A call is served from the idle state: requests are independent and the
\* services keep nothing between them.
Responder(p, r) ==
    /\ peticion = PeticionNinguna
    /\ peticion' = p
    /\ resultado' = r.resultado
    /\ llamadas' = r.llamadas
    /\ UNCHANGED <<tablas_prohibidas, motor, sentencias>>

Listar ==
    \E nombre_tabla \in NombresTabla, esquema \in Esquemas, limite \in Limites,
       retorno \in RetornosRepositorio :
        Responder([op |-> "listar", nombre_tabla |-> nombre_tabla,
                   esquema |-> esquema, limite |-> limite],
                  ServicioCrud_listar(nombre_tabla, esquema, limite, retorno))

ObtenerPorClave ==
    \E nombre_tabla \in NombresTabla, nombre_clave \in Claves, valor \in Claves,
       esquema \in Esquemas, retorno \in RetornosRepositorio :
        Responder([op |-> "obtener_por_clave", nombre_tabla |-> nombre_tabla,
                   nombre_clave |-> nombre_clave, valor |-> valor,
                   esquema |-> esquema],
                  ServicioCrud_obtener_por_clave(nombre_tabla, nombre_clave, valor,
                                                 esquema, retorno))

Crear ==
    \E nombre_tabla \in NombresTabla, datos \in DatosServicio, esquema \in Esquemas,
       campos_encriptar \in Esquemas, retorno \in RetornosRepositorio :
        Responder([op |-> "crear", nombre_tabla |-> nombre_tabla, datos |-> datos,
                   esquema |-> esquema, campos_encriptar |-> campos_encriptar],
                  ServicioCrud_crear(nombre_tabla, datos, esquema, campos_encriptar,
                                     retorno))

Actualizar ==
    \E nombre_tabla \in NombresTabla, nombre_clave \in Claves, valor_clave \in Claves,
       datos \in DatosServicio, esquema \in Esquemas,
       retorno \in RetornosRepositorio :
        Responder([op |-> "actualizar", nombre_tabla |-> nombre_tabla,
                   nombre_clave |-> nombre_clave, valor_clave |-> valor_clave,
                   datos |-> datos, esquema |-> esquema],
                  ServicioCrud_actualizar(nombre_tabla, nombre_clave, valor_clave,
                                          datos, esquema, NoneStr, retorno))

Eliminar ==
    \E nombre_tabla \in NombresTabla, nombre_clave \in Claves, valor_clave \in Claves,
       esquema \in Esquemas, retorno \in RetornosRepositorio :
        Responder([op |-> "eliminar", nombre_tabla |-> nombre_tabla,
                   nombre_clave |-> nombre_clave, valor_clave |-> valor_clave,
                   esquema |-> esquema],
                  ServicioCrud_eliminar(nombre_tabla, nombre_clave, valor_clave,
                                        esquema, retorno))

VerificarContrasena ==
    \E nombre_tabla \in NombresTabla, campo_usuario \in Claves,
       valor_usuario \in Claves, valor_contrasena \in Contrasenas,
       retorno \in RetornosHash :
        Responder([op |-> "verificar_contrasena", nombre_tabla |-> nombre_tabla,
                   campo_usuario |-> campo_usuario, campo_contrasena |-> T_id,
                   valor_usuario |-> valor_usuario,
                   valor_contrasena |-> valor_contrasena],
                  ServicioCrud_verificar_contrasena(nombre_tabla, campo_usuario, T_id,
                                                    valor_usuario, valor_contrasena,
                                                    NoneStr, retorno))

InitCrud ==
    /\ tablas_prohibidas \in CadenasTablasProhibidas
    /\ motor = "ninguno"
    /\ peticion = PeticionNinguna
    /\ resultado = ResultadoNinguno
    /\ llamadas = <<>>
    /\ sentencias = <<>>

NextCrud ==
    \/ Listar
    \/ ObtenerPorClave
    \/ Crear
    \/ Actualizar
    \/ Eliminar
    \/ VerificarContrasena

SpecCrud == InitCrud /\ [][NextCrud]_vars

-----------------------------------------------------------------------------
(* C1 *)

OperacionesCrud ==
    {"listar", "obtener_por_clave", "crear", "actualizar", "eliminar",
     "verificar_contrasena"}

\* The entries of the deny list as configured.
C1_EntradasListaNegra ==
    {Strip(t) : t \in Rango(Split(tablas_prohibidas, ","))} \ {<<>>}

C1_EnListaNegra(nombre) == \E t \in C1_EntradasListaNegra : Lower(t) = Lower(nombre)

\* The arguments an operation requires besides the table name are present.
C1_OtrosArgumentosPresentes ==
    CASE peticion.op = "listar" -> TRUE
      [] peticion.op = "obtener_por_clave" ->
            ~EsBlanco(peticion.nombre_clave) /\ ~EsBlanco(peticion.valor)
      [] peticion.op = "crear" -> peticion.datos # <<>>
      [] peticion.op = "actualizar" ->
            /\ ~EsBlanco(peticion.nombre_clave) /\ ~EsBlanco(peticion.valor_clave)
            /\ peticion.datos # <<>>
      [] peticion.op = "eliminar" ->
            ~EsBlanco(peticion.nombre_clave) /\ ~EsBlanco(peticion.valor_clave)
      [] peticion.op = "verificar_contrasena" ->
            /\ ~EsBlanco(peticion.campo_usuario) /\ ~EsBlanco(peticion.campo_contrasena)
            /\ ~EsBlanco(peticion.valor_usuario) /\ peticion.valor_contrasena # <<>>

C1_Efecto ==
    /\ C1_EnListaNegra(peticion.nombre_tabla) =>
           resultado.tipo = "PermissionError" /\ llamadas = <<>>
    /\ C1_EntradasListaNegra = {} =>
           Len(llamadas) = 1 /\ llamadas[1].nombre_tabla = peticion.nombre_tabla

\* C1 as stated: every CRUD service operation called with a non-blank table name
\* raises PermissionError without invoking the repository when the name is in
\* the deny list (ignoring case), and delegates when the deny list is empty.
C1_Original ==
    (peticion.op \in OperacionesCrud /\ ~EsBlanco(peticion.nombre_tabla))
        => C1_Efecto

\* C1 (amended): every CRUD service operation called with a non-blank table
\* name and with its other required arguments present (key name, key value,
\* data map, user and password fields) raises PermissionError without invoking
\* the repository when the name is in the deny list (ignoring case), and
\* delegates to the repository when the deny list is empty.
C1_TablaProhibidaDenegada ==
    (/\ peticion.op \in OperacionesCrud
     /\ ~EsBlanco(peticion.nombre_tabla)
     /\ C1_OtrosArgumentosPresentes)
        => C1_Efecto

C1_Witness ==
    /\ peticion.op = "eliminar"
    /\ peticion.nombre_tabla = T_AUD
    /\ C1_EnListaNegra(peticion.nombre_tabla)
    /\ C1_OtrosArgumentosPresentes
    /\ resultado.tipo = "PermissionError"
    /\ llamadas = <<>>

-----------------------------------------------------------------------------
(* Python's parsers of text, on the texts the model supplies: int() takes   *)
(* surrounding whitespace, a sign and decimal digits; float() also one      *)
(* decimal point; datetime.fromisoformat() takes YYYY-MM-DD and             *)
(* YYYY-MM-DD?HH:MM:SS.                                                     *)

DigitosSeq == <<"0", "1", "2", "3", "4", "5", "6", "7", "8", "9">>

DigitVal(c) == (CHOOSE i \in 1..Len(DigitosSeq) : DigitosSeq[i] = c) - 1

TodosDigitos(s) == s # <<>> /\ \A i \in 1..Len(s) : s[i] \in Digitos

RECURSIVE ParseNat(_)
ParseNat(s) ==
    IF s = <<>> THEN 0
    ELSE ParseNat(SubSeq(s, 1, Len(s) - 1)) * 10 + DigitVal(s[Len(s)])

SinSigno(s) == IF s # <<>> /\ Head(s) \in {"+", "-"} THEN Tail(s) ELSE s

\* int(s) does not raise ValueError
EsTextoEntero(s) == TodosDigitos(SinSigno(Strip(s)))

\* int(s)
ValorEntero(s) ==
    LET x == Strip(s)
    IN  IF Head(x) = "-" THEN 0 - ParseNat(Tail(x)) ELSE ParseNat(SinSigno(x))

\* float(s) does not raise ValueError
EsTextoFloat(s) ==
    LET x == SinSigno(Strip(s))
        partes == Split(x, ".")
    IN  \/ TodosDigitos(x)
        \/ /\ Len(partes) = 2
           /\ partes[1] = <<>> \/ TodosDigitos(partes[1])
           /\ partes[2] = <<>> \/ TodosDigitos(partes[2])
           /\ partes[1] # <<>> \/ partes[2] # <<>>

RECURSIVE SinCerosFinales(_)
SinCerosFinales(s) ==
    IF s # <<>> /\ s[Len(s)] = "0" THEN SinCerosFinales(SubSeq(s, 1, Len(s) - 1)) ELSE s

\* A float: sign, integer part, decimal digits without trailing zeros.
PyFloat(negativo, entero, decimales) ==
    [t |-> "float", neg |-> negativo /\ (entero # 0 \/ decimales # <<>>),
     e |-> entero, f |-> decimales]

\* float(s)
ValorFloat(s) ==
    LET x == Strip(s)
        partes == Split(SinSigno(x), ".")
    IN  PyFloat(Head(x) = "-", ParseNat(partes[1]),
                IF Len(partes) = 2 THEN SinCerosFinales(partes[2]) ELSE <<>>)

DiasDelMes(anio, mes) ==
    IF mes \in {4, 6, 9, 11} THEN 30
    ELSE IF mes # 2 THEN 31
    ELSE IF anio % 4 = 0 /\ (anio % 100 # 0 \/ anio % 400 = 0) THEN 29
    ELSE 28

\* date.fromisoformat(s) does not raise ValueError, for a text of 10 characters
EsTextoFecha(s) ==
    /\ Len(s) = 10
    /\ s[5] = "-" /\ s[8] = "-"
    /\ TodosDigitos(SubSeq(s, 1, 4)) /\ TodosDigitos(SubSeq(s, 6, 7))
    /\ TodosDigitos(SubSeq(s, 9, 10))
    /\ ParseNat(SubSeq(s, 1, 4)) >= 1
    /\ ParseNat(SubSeq(s, 6, 7)) \in 1..12
    /\ ParseNat(SubSeq(s, 9, 10)) \in
           1..DiasDelMes(ParseNat(SubSeq(s, 1, 4)), ParseNat(SubSeq(s, 6, 7)))

\* the HH:MM:SS of an ISO text
EsTextoHora(s) ==
    /\ Len(s) = 8
    /\ s[3] = ":" /\ s[6] = ":"
    /\ TodosDigitos(SubSeq(s, 1, 2)) /\ TodosDigitos(SubSeq(s, 4, 5))
    /\ TodosDigitos(SubSeq(s, 7, 8))
    /\ ParseNat(SubSeq(s, 1, 2)) \in 0..23
    /\ ParseNat(SubSeq(s, 4, 5)) \in 0..59
    /\ ParseNat(SubSeq(s, 7, 8)) \in 0..59

PyDate(fecha) == [t |-> "date", fecha |-> fecha]

PyDatetime(fecha, hora, minuto, segundo, micro) ==
    [t |-> "datetime", fecha |-> fecha, hora |-> hora, minuto |-> minuto,
     segundo |-> segundo, micro |-> micro]

\* datetime.fromisoformat(s) does not raise ValueError
EsTextoDatetime(s) ==
    \/ EsTextoFecha(s)
    \/ /\ Len(s) = 19
       /\ EsTextoFecha(SubSeq(s, 1, 10))
       /\ EsTextoHora(SubSeq(s, 12, 19))
    \/ /\ Len(s) = 26
       /\ EsTextoFecha(SubSeq(s, 1, 10))
       /\ EsTextoHora(SubSeq(s, 12, 19))
       /\ s[20] = "."
       /\ TodosDigitos(SubSeq(s, 21, 26))

\* datetime.fromisoformat(s)
ValorDatetime(s) ==
    IF Len(s) = 10 THEN PyDatetime(s, 0, 0, 0, 0)
    ELSE PyDatetime(SubSeq(s, 1, 10), ParseNat(SubSeq(s, 12, 13)),
                    ParseNat(SubSeq(s, 15, 16)), ParseNat(SubSeq(s, 18, 19)),
                    IF Len(s) = 26 THEN ParseNat(SubSeq(s, 21, 26)) ELSE 0)

\* str.replace(old, new): leftmost non-overlapping occurrences
RECURSIVE Replace(_, _, _)
Replace(s, old, new) ==
    IF old = <<>> \/ Len(s) < Len(old) THEN s
    ELSE IF SubSeq(s, 1, Len(old)) = old
         THEN new \o Replace(SubSeq(s, Len(old) + 1, Len(s)), old, new)
         ELSE <<Head(s)>> \o Replace(Tail(s), old, new)

-----------------------------------------------------------------------------
(* dict[str, Any], in insertion order: a sequence of [k, v] with distinct  *)
(* keys.                                                                    *)

DictTiene(d, k) == \E i \in 1..Len(d) : d[i].k = k

DictGet(d, k) == d[CHOOSE i \in 1..Len(d) : d[i].k = k].v

\* d[k] = v
DictSet(d, k, v) ==
    IF DictTiene(d, k)
    THEN [i \in 1..Len(d) |-> IF d[i].k = k THEN [k |-> k, v |-> v] ELSE d[i]]
    ELSE Append(d, [k |-> k, v |-> v])

\* A dict where None may stand in its place.
PyDict(items) == [t |-> "dict", items |-> items]

-----------------------------------------------------------------------------
(* servicios/servicio_consultas.py                                          *)

MAXIMO_REGISTROS_POR_DEFECTO == 10000

\* [t.strip() for t in tablas_prohibidas_str.split(',') if t.strip()]
lista_tablas_prohibidas ==
    LET no_vacias == SelectSeq(Split(tablas_prohibidas, ","),
                               LAMBDA t : Strip(t) # <<>>)
    IN  [i \in 1..Len(no_vacias) |-> Strip(no_vacias[i])]

Veredicto(valida, codigo, tabla) ==
    [valida |-> valida, mensaje |-> [codigo |-> codigo, tabla |-> tabla]]

validar_consulta_sql_sensible_a_mayusculas(consulta, tablas) ==
    IF EsBlanco(consulta) THEN Veredicto(FALSE, "vacia", <<>>)
    ELSE IF /\ ~StartsWith(Upper(Strip(consulta)), <<"S", "E", "L", "E", "C", "T">>)
            /\ ~StartsWith(Upper(Strip(consulta)), <<"W", "I", "T", "H">>)
         THEN Veredicto(FALSE, "solo_select_with", <<>>)
    ELSE IF \E i \in 1..Len(tablas) : Contiene(consulta, tablas[i])
         THEN Veredicto(FALSE, "tabla_prohibida",
                        tablas[CHOOSE i \in 1..Len(tablas) :
                                   /\ Contiene(consulta, tablas[i])
                                   /\ \A j \in 1..(i - 1) :
                                          ~Contiene(consulta, tablas[j])])
    ELSE Veredicto(TRUE, "None", <<>>)

validar_consulta_sql_contiene_select(consulta, tablas) ==
    IF EsBlanco(consulta) THEN Veredicto(FALSE, "vacia", <<>>)
    ELSE IF /\ ~Contiene(Upper(Strip(consulta)), <<"S", "E", "L", "E", "C", "T">>)
            /\ ~Contiene(Upper(Strip(consulta)), <<"W", "I", "T", "H">>)
         THEN Veredicto(FALSE, "solo_select_with", <<>>)
    ELSE IF \E i \in 1..Len(tablas) : Contiene(Lower(consulta), Lower(tablas[i]))
         THEN Veredicto(FALSE, "tabla_prohibida", <<>>)
    ELSE Veredicto(TRUE, "None", <<>>)

validar_consulta_sql_tablas_primero(consulta, tablas) ==
    IF EsBlanco(consulta) THEN Veredicto(FALSE, "vacia", <<>>)
    ELSE IF \E i \in 1..Len(tablas) : Contiene(Lower(consulta), Lower(tablas[i]))
         THEN Veredicto(FALSE, "tabla_prohibida",
                        tablas[CHOOSE i \in 1..Len(tablas) :
                                   /\ Contiene(Lower(consulta), Lower(tablas[i]))
                                   /\ \A j \in 1..(i - 1) :
                                          ~Contiene(Lower(consulta), Lower(tablas[j]))])
    ELSE IF /\ ~StartsWith(Upper(Strip(consulta)), <<"S", "E", "L", "E", "C", "T">>)
            /\ ~StartsWith(Upper(Strip(consulta)), <<"W", "I", "T", "H">>)
         THEN Veredicto(FALSE, "solo_select_with", <<>>)
    ELSE Veredicto(TRUE, "None", <<>>)

validar_consulta_sql(consulta, tablas) ==
    IF EsBlanco(consulta) THEN Veredicto(FALSE, "vacia", <<>>)
    ELSE IF /\ ~StartsWith(Upper(Strip(consulta)), <<"S", "E", "L", "E", "C", "T">>)
            /\ ~StartsWith(Upper(Strip(consulta)), <<"W", "I", "T", "H">>)
         THEN Veredicto(FALSE, "solo_select_with", <<>>)
    ELSE IF \E i \in 1..Len(tablas) : Contiene(Lower(consulta), Lower(tablas[i]))
         THEN Veredicto(FALSE, "tabla_prohibida",
                        tablas[CHOOSE i \in 1..Len(tablas) :
                                   /\ Contiene(Lower(consulta), Lower(tablas[i]))
                                   /\ \A j \in 1..(i - 1) :
                                          ~Contiene(Lower(consulta), Lower(tablas[j]))])
    ELSE Veredicto(TRUE, "None", <<>>)

EsCaracterPalabra(c) ==
    \/ c \in Digitos
    \/ c = "_"
    \/ \E i \in 1..Len(Mayusculas) : c = Mayusculas[i] \/ c = Minusculas[i]

\* re.match(r'^@\w+$', nombre): `$` also matches before a final newline
NombreParametroValido(nombre) ==
    /\ Len(nombre) >= 2
    /\ nombre[1] = "@"
    /\ LET resto == Tail(nombre)
           cuerpo == IF resto[Len(resto)] = "\n"
                     THEN SubSeq(resto, 1, Len(resto) - 1)
                     ELSE resto
       IN  cuerpo # <<>> /\ \A i \in 1..Len(cuerpo) : EsCaracterPalabra(cuerpo[i])

\* key if key.startswith("@") else f"@{key}"
ConArroba(clave) == IF StartsWith(clave, <<"@">>) THEN clave ELSE <<"@">> \o clave

_detectar_tipo_desde_string(valor) ==
    IF valor = <<>> THEN PyStr(valor)
    ELSE IF EsTextoDatetime(Replace(valor, <<"Z">>, <<"+", "0", "0", ":", "0", "0">>))
         THEN ValorDatetime(Replace(valor, <<"Z">>, <<"+", "0", "0", ":", "0", "0">>))
    ELSE IF EsTextoEntero(valor) THEN PyInt(ValorEntero(valor))
    ELSE IF EsTextoFloat(valor) THEN ValorFloat(valor)
    ELSE IF Lower(valor) \in {<<"t", "r", "u", "e">>, <<"f", "a", "l", "s", "e">>} THEN PyBool(Lower(valor) = <<"t", "r", "u", "e">>)
    ELSE PyStr(valor)

_detectar_tipo(valor) ==
    IF valor.t = "str" THEN _detectar_tipo_desde_string(valor.v) ELSE valor

\* The loop of _convertir_parametros_desde_json over the items still to convert.
RECURSIVE ConvertirParametros(_, _)
ConvertirParametros(parametros_genericos, pendientes) ==
    IF pendientes = <<>> THEN Retorna(parametros_genericos)
    ELSE IF ~NombreParametroValido(ConArroba(Head(pendientes).k))
         THEN Lanza("ValueError")
    ELSE ConvertirParametros(
             DictSet(parametros_genericos, ConArroba(Head(pendientes).k),
                     _detectar_tipo(Head(pendientes).v)),
             Tail(pendientes))

\* parametros is PyNone or a PyDict
_convertir_parametros_desde_json(parametros) ==
    IF parametros.t = "None" THEN Retorna(<<>>)
    ELSE ConvertirParametros(<<>>, parametros.items)

ServicioConsultas_ejecutar_consulta_parametrizada(consulta, parametros, maximo_registros, esquema, retorno) ==
    LET v == validar_consulta_sql(consulta, lista_tablas_prohibidas)
    IN  IF ~v.valida
        THEN [resultado |-> [tipo |-> "PermissionError", mensaje |-> v.mensaje],
              llamadas  |-> <<>>]
        ELSE [resultado |-> retorno,
              llamadas  |-> <<[metodo |-> "ejecutar_consulta_parametrizada_con_dictionary",
                               consulta_sql |-> consulta,
                               parametros |-> parametros,
                               maximo_registros |-> maximo_registros,
                               esquema |-> esquema]>>]

ServicioConsultas_ejecutar_consulta_parametrizada_desde_json(consulta, parametros, retorno) ==
    LET parametros_genericos == _convertir_parametros_desde_json(parametros)
    IN  IF parametros_genericos.tipo # "ok"
        THEN [resultado |-> parametros_genericos, llamadas |-> <<>>]
        ELSE ServicioConsultas_ejecutar_consulta_parametrizada(
                 consulta, parametros_genericos.valor,
                 MAXIMO_REGISTROS_POR_DEFECTO, NoneStr, retorno)

-----------------------------------------------------------------------------
(* Inputs of the query service.                                             *)

PrefijosConsulta ==
    { <<"S", "E", "L", "E", "C", "T", " ", "*", " ", "F", "R", "O", "M", " ">>,
      <<"s", "e", "l", "e", "c", "t", " ", "*", " ", "f", "r", "o", "m", " ">>,
      <<" ", " ", "S", "e", "L", "e", "C", "t", " ", "*", " ", "F", "R", "O", "M", " ">>,
      <<"W", "I", "T", "H", " ", "c", " ", "A", "S", " ", "(", "S", "E", "L", "E", "C", "T", " ", "1", ")", " ", "S", "E", "L", "E", "C", "T", " ", "*", " ", "F", "R", "O", "M", " ">>,
      <<"w", "i", "t", "h", " ", "c", " ", "a", "s", " ", "(", "s", "e", "l", "e", "c", "t", " ", "1", ")", " ", "s", "e", "l", "e", "c", "t", " ", "*", " ", "f", "r", "o", "m", " ">>,
      <<"D", "E", "L", "E", "T", "E", " ", "F", "R", "O", "M", " ">>,
      <<"(", "S", "E", "L", "E", "C", "T", " ", "*", " ", "F", "R", "O", "M", " ">>,
      <<"U", "P", "D", "A", "T", "E", " ", "x", " ", "S", "E", "T", " ", "a", " ", "=", " ", "(", "S", "E", "L", "E", "C", "T", " ", "1", ")", " ", "W", "H", "E", "R", "E", " ", "t", " ", "=", " ">>,
      <<>> }

TablasEnConsulta == { T_aud, T_AUD, T_Aud, T_prod, <<"x">> \o T_aud \o <<"s">>, T_cfg }

SufijosConsulta == { <<>>, <<" ", "W", "H", "E", "R", "E", " ", "i", "d", " ", "=", " ", "@", "i", "d">>, <<" ", "W", "H", "E", "R", "E", " ", "n", " ", "=", " ", "'", "a", "u", "d", "'">> }

ConsultasServicio ==
    { <<>>, <<" ", " ">> }
    \cup { p \o t \o s : p \in PrefijosConsulta, t \in TablasEnConsulta,
                         s \in SufijosConsulta }

ParametrosJson ==
    { PyNone,
      PyDict(<<>>),
      PyDict(<<[k |-> <<"i", "d">>, v |-> PyInt(5)]>>),
      PyDict(<<[k |-> <<"@", "i", "d">>, v |-> PyStr(<<"2", "0", "2", "4", "-", "0", "1", "-", "1", "5">>)]>>),
      PyDict(<<[k |-> <<"i", "d">>, v |-> PyStr(<<"7">>)], [k |-> <<"@", "i", "d">>, v |-> PyStr(<<"T", "r", "u", "e">>)]>>),
      PyDict(<<[k |-> <<"i", " ", "d">>, v |-> PyInt(1)]>>) }

ParametrosTipados == { <<>>, <<[k |-> <<"@", "i", "d">>, v |-> PyInt(5)]>> }

RetornosConsulta == { Retorna(<<>>), Retorna(<<1>>), Lanza("RuntimeError") }

-----------------------------------------------------------------------------
(* The query service: one action per public operation of ServicioConsultas. *)

EjecutarConsultaParametrizada ==
    \E consulta \in ConsultasServicio, parametros \in ParametrosTipados,
       retorno \in RetornosConsulta :
        Responder([op |-> "ejecutar_consulta_parametrizada", consulta |-> consulta,
                   parametros |-> parametros],
                  ServicioConsultas_ejecutar_consulta_parametrizada(
                      consulta, parametros, MAXIMO_REGISTROS_POR_DEFECTO, NoneStr,
                      retorno))

EjecutarConsultaParametrizadaDesdeJson ==
    \E consulta \in ConsultasServicio, parametros \in ParametrosJson,
       retorno \in RetornosConsulta :
        Responder([op |-> "ejecutar_consulta_parametrizada_desde_json",
                   consulta |-> consulta, parametros |-> parametros],
                  ServicioConsultas_ejecutar_consulta_parametrizada_desde_json(
                      consulta, parametros, retorno))

NextServicioConsultas ==
    \/ EjecutarConsultaParametrizada
    \/ EjecutarConsultaParametrizadaDesdeJson

SpecServicioConsultas == InitCrud /\ [][NextServicioConsultas]_vars

-----------------------------------------------------------------------------
(* C2, C3 *)

\* The text begins, after trimming and ignoring letter case, with SELECT or WITH.
EmpiezaConSelectOWith(consulta) ==
    LET q == Lower(Strip(consulta))
    IN  \/ Len(q) >= 6 /\ SubSeq(q, 1, 6) = <<"s", "e", "l", "e", "c", "t">>
        \/ Len(q) >= 4 /\ SubSeq(q, 1, 4) = <<"w", "i", "t", "h">>

\* The text mentions a table of the deny list, in any letter case.
MencionaTablaProhibida(consulta) ==
    \E t \in C1_EntradasListaNegra : Contiene(Lower(consulta), Lower(t))

\* C2: ejecutar_consulta_parametrizada raises PermissionError, without calling
\* the repository, for every SELECT/WITH query whose text references a table of
\* the deny list, in any letter case.
C2_ConsultaProhibidaDenegada ==
    (/\ peticion.op = "ejecutar_consulta_parametrizada"
     /\ EmpiezaConSelectOWith(peticion.consulta)
     /\ MencionaTablaProhibida(peticion.consulta))
        => (resultado.tipo = "PermissionError" /\ llamadas = <<>>)

C2_Witness ==
    /\ peticion.op = "ejecutar_consulta_parametrizada"
    /\ peticion.consulta = <<"s", "e", "l", "e", "c", "t", " ", "*", " ", "f", "r", "o", "m", " ">> \o T_AUD
    /\ tablas_prohibidas = <<" ">> \o T_Aud \o <<" ", ",">> \o T_cfg
    /\ resultado.tipo = "PermissionError"
    /\ llamadas = <<>>

OperacionesConsulta ==
    {"ejecutar_consulta_parametrizada", "ejecutar_consulta_parametrizada_desde_json"}

\* C3: every SQL text that ServicioConsultas hands to the repository's ad-hoc
\* query execution begins, after trimming and ignoring letter case, with SELECT
\* or WITH; any other statement is rejected before the repository is called.
C3_SoloSelectOWith ==
    /\ \A i \in 1..Len(llamadas) :
           llamadas[i].metodo = "ejecutar_consulta_parametrizada_con_dictionary"
               => EmpiezaConSelectOWith(llamadas[i].consulta_sql)
    /\ (peticion.op \in OperacionesConsulta
        /\ ~EmpiezaConSelectOWith(peticion.consulta))
           => (llamadas = <<>> /\ resultado.tipo \in {"PermissionError", "ValueError"})

C3_Witness ==
    /\ peticion.op = "ejecutar_consulta_parametrizada_desde_json"
    /\ peticion.consulta = <<" ", " ", "S", "e", "L", "e", "C", "t", " ", "*", " ", "F", "R", "O", "M", " ">> \o T_prod
    /\ Len(llamadas) = 1
    /\ llamadas[1].metodo = "ejecutar_consulta_parametrizada_con_dictionary"
    /\ llamadas[1].consulta_sql = peticion.consulta

-----------------------------------------------------------------------------
(* repositorios/repositorio_lectura_{postgresql,sqlserver,mysql_mariadb}.py *)
(*                                                                          *)
(* A statement sent to the engine is [sql, params]. The SQL text is the     *)
(* sequence of the pieces the f-string is made of: fixed text, a quoted     *)
(* identifier, a :name marker of a bound parameter, or the text of an       *)
(* interpolated Python value. params is the dict handed to conn.execute.    *)
(* The type the catalog reports for a column (_detectar_tipo_columna) is an *)
(* input: "None" when the column is unknown or the lookup failed.           *)

Motores == {"postgresql", "sqlserver", "mysql"}

LIMITE_POR_DEFECTO == 1000

Texto(s) == [o |-> "texto", s |-> s]

Identificador(n) == [o |-> "identificador", n |-> n]

Marcador(n) == [o |-> "marcador", n |-> n]

Interpolado(v, origen) == [o |-> "interpolado", v |-> v, origen |-> origen]

Sentencia(sql, params) == [sql |-> sql, params |-> params]

RECURSIVE Concatenar(_)
Concatenar(partes) ==
    IF partes = <<>> THEN <<>> ELSE Head(partes) \o Concatenar(Tail(partes))

\* sep.join(partes), each part a sequence of pieces
RECURSIVE Join(_, _)
Join(partes, sep) ==
    IF partes = <<>> THEN <<>>
    ELSE IF Len(partes) = 1 THEN Head(partes)
    ELSE Head(partes) \o <<sep>> \o Join(Tail(partes), sep)

\* The backtick of MySQL/MariaDB, a character no TLA+ string can hold.
AcentoGrave == Texto("U+0060")

\* `x`, "x", [x]
Citado(m, n) ==
    CASE m = "postgresql" -> <<Texto("\""), Identificador(n), Texto("\"")>>
      [] m = "sqlserver"  -> <<Texto("["), Identificador(n), Texto("]")>>
      [] m = "mysql"      -> <<AcentoGrave, Identificador(n), AcentoGrave>>

\* (esquema or "public").strip(), (esquema or "dbo").strip()
esquema_final(m, esquema) ==
    IF esquema = NoneStr \/ esquema = <<>>
    THEN (IF m = "postgresql" THEN <<"p", "u", "b", "l", "i", "c">> ELSE <<"d", "b", "o">>)
    ELSE Strip(esquema)

\* "esquema"."tabla", [esquema].[tabla], `esquema`.`tabla` or `tabla`
TablaCalificada(m, nombre_tabla, esquema) ==
    IF m = "mysql"
    THEN (IF esquema = NoneStr \/ esquema = <<>>
          THEN Citado(m, nombre_tabla)
          ELSE Citado(m, esquema) \o <<Texto(".")>> \o Citado(m, nombre_tabla))
    ELSE Citado(m, esquema_final(m, esquema)) \o <<Texto(".")>> \o Citado(m, nombre_tabla)

TiposEnteros(m) ==
    CASE m = "postgresql" -> {"integer", "int4", "bigint", "int8", "smallint", "int2"}
      [] m = "sqlserver"  -> {"int", "bigint", "smallint", "tinyint"}
      [] m = "mysql"      -> {"int", "integer", "bigint", "smallint", "tinyint", "mediumint"}

TiposDecimales(m) ==
    CASE m = "postgresql" -> {"numeric", "decimal"}
      [] m = "sqlserver"  -> {"decimal", "numeric", "money", "smallmoney"}
      [] m = "mysql"      -> {"decimal", "numeric"}

TiposFlotantes(m) ==
    CASE m = "postgresql" -> {"real", "float4", "double precision", "float8"}
      [] m = "sqlserver"  -> {"float", "real"}
      [] m = "mysql"      -> {"float", "double", "real"}

TiposBooleanos(m) ==
    CASE m = "postgresql" -> {"boolean", "bool"}
      [] m = "sqlserver"  -> {"bit"}
      [] m = "mysql"      -> {"bit"}

TextosVerdaderos(m) ==
    IF m = "postgresql" THEN {<<"t", "r", "u", "e">>, <<"1">>, <<"y", "e", "s">>, <<"s", "i">>, <<"t">>}
    ELSE {<<"t", "r", "u", "e">>, <<"1">>, <<"y", "e", "s">>, <<"s", "i">>}

TiposFechaHora(m) ==
    CASE m = "postgresql" -> {"timestamp without time zone", "timestamp with time zone"}
      [] m = "sqlserver"  -> {"datetime", "datetime2", "smalldatetime"}
      [] m = "mysql"      -> {"datetime", "timestamp"}

\* the column types for which obtener_por_clave compares dates only
TiposBusquedaFecha(m) ==
    CASE m = "postgresql" -> {"timestamp without time zone", "timestamp with time zone"}
      [] m = "sqlserver"  -> {"datetime", "datetime2"}
      [] m = "mysql"      -> {"datetime", "timestamp"}

PyDecimal(negativo, entero, decimales) ==
    [t |-> "Decimal", neg |-> negativo /\ (entero # 0 \/ decimales # <<>>),
     e |-> entero, f |-> decimales]

\* Decimal(s); a text that is no number raises decimal.InvalidOperation
ValorDecimal(s) ==
    LET x == Strip(s)
        partes == Split(SinSigno(x), ".")
    IN  PyDecimal(Head(x) = "-", ParseNat(partes[1]),
                  IF Len(partes) = 2 THEN SinCerosFinales(partes[2]) ELSE <<>>)

PyTime(hora, minuto, segundo) ==
    [t |-> "time", hora |-> hora, minuto |-> minuto, segundo |-> segundo]

\* valor[:10]
Primeros(s, n) == SubSeq(s, 1, IF Len(s) < n THEN Len(s) ELSE n)

\* _extraer_solo_fecha does not raise ValueError
_extraer_solo_fecha_valida(valor) ==
    IF Contiene(valor, <<"T">>)
    THEN EsTextoDatetime(Replace(valor, <<"Z">>, <<"+", "0", "0", ":", "0", "0">>))
    ELSE EsTextoFecha(Primeros(valor, 10))

_extraer_solo_fecha(valor) == PyDate(Primeros(valor, 10))

Cuenta(s, c) == Cardinality({i \in 1..Len(s) : s[i] = c})

_es_fecha_sin_hora(valor) ==
    /\ Len(valor) = 10
    /\ Cuenta(valor, "-") = 2
    /\ ~Contiene(valor, <<"T">>)
    /\ ~Contiene(valor, <<":">>)

\* _convertir_valor: ValueError and TypeError are swallowed, the value then
\* stays the text; decimal.InvalidOperation is neither and leaves the method.
TiposUuid(m) ==
    CASE m = "postgresql" -> {"uuid"}
      [] m = "sqlserver"  -> {"uniqueidentifier"}
      [] m = "mysql"      -> {}

DigitosHex == Digitos \cup {"a", "b", "c", "d", "e", "f"}

PyUUID(hex) == [t |-> "UUID", hex |-> hex]

\* hex.replace('urn:', '').replace('uuid:', '').strip('{}').replace('-', '')
RECURSIVE StripLlaves(_)
StripLlaves(s) ==
    IF s # <<>> /\ Head(s) \in {"{", "}"} THEN StripLlaves(Tail(s))
    ELSE IF s # <<>> /\ s[Len(s)] \in {"{", "}"} THEN StripLlaves(SubSeq(s, 1, Len(s) - 1))
    ELSE s

HexDeUUID(valor) ==
    Replace(StripLlaves(Replace(Replace(valor, <<"u", "r", "n", ":">>, <<>>), <<"u", "u", "i", "d", ":">>, <<>>)), <<"-">>, <<>>)

\* UUID(valor) does not raise ValueError: 32 hexadecimal digits
EsTextoUUID(valor) ==
    /\ Len(HexDeUUID(valor)) = 32
    /\ \A i \in 1..32 : LowerChar(HexDeUUID(valor)[i]) \in DigitosHex

\* UUID(valor)
ValorUUID(valor) == PyUUID(Lower(HexDeUUID(valor)))

_convertir_valor(m, valor, tipo_destino) ==
    IF tipo_destino = "None" THEN Retorna(PyStr(valor))
    ELSE IF tipo_destino \in TiposEnteros(m)
         THEN Retorna(IF EsTextoEntero(valor) THEN PyInt(ValorEntero(valor))
                      ELSE PyStr(valor))
    ELSE IF tipo_destino \in TiposDecimales(m)
         THEN (IF EsTextoFloat(valor) THEN Retorna(ValorDecimal(valor))
               ELSE Lanza("InvalidOperation"))
    ELSE IF tipo_destino \in TiposFlotantes(m)
         THEN Retorna(IF EsTextoFloat(valor) THEN ValorFloat(valor) ELSE PyStr(valor))
    ELSE IF tipo_destino \in TiposBooleanos(m)
         THEN Retorna(PyBool(Lower(valor) \in TextosVerdaderos(m)))
    ELSE IF tipo_destino \in TiposUuid(m)
         THEN Retorna(IF EsTextoUUID(valor) THEN ValorUUID(valor) ELSE PyStr(valor))
    ELSE IF tipo_destino = "date"
         THEN Retorna(IF _extraer_solo_fecha_valida(valor)
                      THEN _extraer_solo_fecha(valor) ELSE PyStr(valor))
    ELSE IF tipo_destino \in TiposFechaHora(m)
         THEN Retorna(IF EsTextoDatetime(Replace(valor, <<"Z">>, <<"+", "0", "0", ":", "0", "0">>))
                      THEN ValorDatetime(Replace(valor, <<"Z">>, <<"+", "0", "0", ":", "0", "0">>))
                      ELSE PyStr(valor))
    ELSE IF tipo_destino = "time"
         THEN Retorna(IF EsTextoHora(valor)
                      THEN PyTime(ParseNat(SubSeq(valor, 1, 2)),
                                  ParseNat(SubSeq(valor, 4, 5)),
                                  ParseNat(SubSeq(valor, 7, 8)))
                      ELSE PyStr(valor))
    ELSE Retorna(PyStr(valor))

\* bool(v)
EsVerdadero(v) ==
    CASE v.t = "None" -> FALSE
      [] v.t = "str"  -> v.v # <<>>
      [] v.t = "int"  -> v.v # 0
      [] v.t = "bool" -> v.v
      [] v.t \in {"dict", "list"} -> v.items # <<>>
      [] OTHER        -> TRUE

RECURSIVE NatATexto(_)
NatATexto(n) ==
    IF n < 10 THEN <<DigitosSeq[n + 1]>>
    ELSE NatATexto(n \div 10) \o <<DigitosSeq[(n % 10) + 1]>>

\* a number below 100 in two digits
DosDigitos(n) == <<DigitosSeq[(n \div 10) + 1], DigitosSeq[(n % 10) + 1]>>

\* a list value
PyList(items) == [t |-> "list", items |-> items]

\* sep.join(partes) over texts
RECURSIVE UnirTextos(_, _)
UnirTextos(partes, sep) ==
    IF partes = <<>> THEN <<>>
    ELSE IF Len(partes) = 1 THEN Head(partes)
    ELSE Head(partes) \o sep \o UnirTextos(Tail(partes), sep)

\* repr(v): what str() prints for the members of a dict or a list
RECURSIVE repr(_)
repr(v) ==
    CASE v.t = "str"  -> <<"'">> \o v.v \o <<"'">>
      [] v.t = "int"  -> (IF v.v < 0 THEN <<"-">> \o NatATexto(0 - v.v)
                          ELSE NatATexto(v.v))
      [] v.t = "bool" -> (IF v.v THEN <<"T", "r", "u", "e">> ELSE <<"F", "a", "l", "s", "e">>)
      [] v.t = "None" -> <<"N", "o", "n", "e">>
      [] v.t = "dict" -> <<"{">>
                         \o UnirTextos([i \in 1..Len(v.items) |->
                                           <<"'">> \o v.items[i].k \o <<"'", ":", " ">>
                                           \o repr(v.items[i].v)], <<",", " ">>)
                         \o <<"}">>
      [] v.t = "list" -> <<"[">>
                         \o UnirTextos([i \in 1..Len(v.items) |-> repr(v.items[i])], <<",", " ">>)
                         \o <<"]">>

\* json.dumps(v) with the default separators
RECURSIVE json_dumps(_)
json_dumps(v) ==
    CASE v.t = "str"  -> <<"\"">> \o v.v \o <<"\"">>
      [] v.t = "int"  -> (IF v.v < 0 THEN <<"-">> \o NatATexto(0 - v.v)
                          ELSE NatATexto(v.v))
      [] v.t = "bool" -> (IF v.v THEN <<"t", "r", "u", "e">> ELSE <<"f", "a", "l", "s", "e">>)
      [] v.t = "None" -> <<"n", "u", "l", "l">>
      [] v.t = "dict" -> <<"{">>
                         \o UnirTextos([i \in 1..Len(v.items) |->
                                           <<"\"">> \o v.items[i].k \o <<"\"", ":", " ">>
                                           \o json_dumps(v.items[i].v)], <<",", " ">>)
                         \o <<"}">>
      [] v.t = "list" -> <<"[">>
                         \o UnirTextos([i \in 1..Len(v.items) |-> json_dumps(v.items[i])], <<",", " ">>)
                         \o <<"]">>

\* str(v)
str(v) ==
    CASE v.t = "str"  -> v.v
      [] v.t \in {"dict", "list"} -> repr(v)
      [] v.t = "int"  -> (IF v.v < 0 THEN <<"-">> \o NatATexto(0 - v.v)
                          ELSE NatATexto(v.v))
      [] v.t = "bool" -> (IF v.v THEN <<"T", "r", "u", "e">> ELSE <<"F", "a", "l", "s", "e">>)
      [] v.t = "None" -> <<"N", "o", "n", "e">>
      [] v.t = "date" -> v.fecha
      [] v.t = "datetime" -> v.fecha \o <<" ">> \o DosDigitos(v.hora) \o <<":">>
                             \o DosDigitos(v.minuto) \o <<":">> \o DosDigitos(v.segundo)

\* {c.strip().lower() for c in campos_encriptar.split(',') if c.strip()}
campos_a_encriptar(campos_encriptar) ==
    { Lower(Strip(c)) : c \in { x \in Rango(Split(campos_encriptar, ",")) : Strip(x) # <<>> } }

\* if campo.lower() in campos_a_encriptar and datos_finales[campo]
SeEncripta(campo, valor, campos_encriptar) ==
    /\ campos_encriptar # NoneStr
    /\ campos_encriptar # <<>>
    /\ Lower(campo) \in campos_a_encriptar(campos_encriptar)
    /\ EsVerdadero(valor)

\* datos_finales after the loop over the encrypt list; sales[i] is the salt
\* bcrypt draws for the i-th column
datos_finales(datos, campos_encriptar, sales) ==
    IF \E i \in 1..Len(datos) :
           /\ SeEncripta(datos[i].k, datos[i].v, campos_encriptar)
           /\ encriptar_lanza(str(datos[i].v))
    THEN Lanza("ValueError")
    ELSE Retorna([i \in 1..Len(datos) |->
                     IF SeEncripta(datos[i].k, datos[i].v, campos_encriptar)
                     THEN [k |-> datos[i].k,
                           v |-> PyStr(encriptar(str(datos[i].v), sales[i]))]
                     ELSE datos[i]])

\* the name under which column k is bound: k, or p_k in MySQL/MariaDB
NombreParametro(m, k) == IF m = "mysql" THEN <<"p", "_">> \o k ELSE k

\* valores[...] = _convertir_valor(val, tipo) for text, val otherwise
ValorConvertido(m, val, tipo) ==
    IF val.t = "str" THEN _convertir_valor(m, val.v, tipo) ELSE Retorna(val)

RECURSIVE valores_de(_, _, _, _)
valores_de(m, finales, catalogo, valores) ==
    IF finales = <<>> THEN valores
    ELSE valores_de(m, Tail(finales), catalogo,
                    DictSet(valores, NombreParametro(m, Head(finales).k),
                            ValorConvertido(m, Head(finales).v,
                                            catalogo[Head(finales).k]).valor))

ConversionFalla(m, finales, catalogo) ==
    \E i \in 1..Len(finales) :
        ValorConvertido(m, finales[i].v, catalogo[finales[i].k]).tipo # "ok"

\* result.rowcount etc. when the engine accepts the statement, RuntimeError
\* wrapping whatever it raises otherwise
Ejecutada(sentencia, retorno) ==
    [resultado |-> IF retorno.tipo = "ok" THEN retorno ELSE Lanza("RuntimeError"),
     sentencias |-> <<sentencia>>]

SinSentencia(excepcion) == [resultado |-> Lanza(excepcion), sentencias |-> <<>>]

Repositorio_obtener_filas(m, nombre_tabla, esquema, limite, retorno) ==
    LET suministrado == EsVerdadero(limite)
        limite_final == IF suministrado THEN limite ELSE PyInt(LIMITE_POR_DEFECTO)
        origen == IF suministrado THEN "llamador" ELSE "defecto"
    IN  IF EsBlanco(nombre_tabla) THEN SinSentencia("ValueError")
        ELSE IF m = "sqlserver"
             THEN Ejecutada(Sentencia(<<Texto("SELECT TOP ("),
                                        Interpolado(limite_final, origen),
                                        Texto(") * FROM ")>>
                                      \o TablaCalificada(m, nombre_tabla, esquema),
                                      <<>>),
                            retorno)
        ELSE Ejecutada(Sentencia(<<Texto("SELECT * FROM ")>>
                                 \o TablaCalificada(m, nombre_tabla, esquema)
                                 \o <<Texto(" LIMIT "), Marcador(<<"l", "i", "m", "i", "t", "e">>)>>,
                                 <<[k |-> <<"l", "i", "m", "i", "t", "e">>, v |-> limite_final]>>),
                       retorno)

Repositorio_obtener_por_clave(m, nombre_tabla, nombre_clave, valor, esquema, catalogo, retorno) ==
    LET tipo_columna == catalogo[nombre_clave]
        es_busqueda_fecha == tipo_columna \in TiposBusquedaFecha(m) /\ _es_fecha_sin_hora(valor)
        columna == IF ~es_busqueda_fecha THEN Citado(m, nombre_clave)
                   ELSE IF m = "mysql"
                        THEN <<Texto("DATE(")>> \o Citado(m, nombre_clave) \o <<Texto(")")>>
                   ELSE <<Texto("CAST(")>> \o Citado(m, nombre_clave) \o <<Texto(" AS DATE)")>>
        sql == <<Texto("SELECT * FROM ")>> \o TablaCalificada(m, nombre_tabla, esquema)
               \o <<Texto(" WHERE ")>> \o columna \o <<Texto(" = "), Marcador(<<"v", "a", "l", "o", "r">>)>>
        valor_convertido == IF es_busqueda_fecha
                            THEN (IF _extraer_solo_fecha_valida(valor)
                                  THEN Retorna(_extraer_solo_fecha(valor))
                                  ELSE Lanza("ValueError"))
                            ELSE _convertir_valor(m, valor, tipo_columna)
    IN  IF EsBlanco(nombre_tabla) \/ EsBlanco(nombre_clave) \/ EsBlanco(valor)
        THEN SinSentencia("ValueError")
        ELSE IF valor_convertido.tipo # "ok" THEN SinSentencia("RuntimeError")
        ELSE Ejecutada(Sentencia(sql, <<[k |-> <<"v", "a", "l", "o", "r">>, v |-> valor_convertido.valor]>>),
                       retorno)

Repositorio_crear(m, nombre_tabla, datos, esquema, campos_encriptar, sales, catalogo, retorno) ==
    LET finales == datos_finales(datos, campos_encriptar, sales)
        columnas == Join([i \in 1..Len(datos) |-> Citado(m, datos[i].k)], Texto(", "))
        parametros == Join([i \in 1..Len(datos) |->
                               <<Marcador(NombreParametro(m, datos[i].k))>>], Texto(", "))
        sql == <<Texto("INSERT INTO ")>> \o TablaCalificada(m, nombre_tabla, esquema)
               \o <<Texto(" (")>> \o columnas \o <<Texto(") VALUES (")>>
               \o parametros \o <<Texto(")")>>
    IN  IF EsBlanco(nombre_tabla) \/ datos = <<>> THEN SinSentencia("ValueError")
        ELSE IF finales.tipo # "ok" THEN SinSentencia("ValueError")
        ELSE IF ConversionFalla(m, finales.valor, catalogo) THEN SinSentencia("RuntimeError")
        ELSE Ejecutada(Sentencia(sql, valores_de(m, finales.valor, catalogo, <<>>)), retorno)

Repositorio_actualizar(m, nombre_tabla, nombre_clave, valor_clave, datos, esquema, campos_encriptar, sales, catalogo, retorno) ==
    LET finales == datos_finales(datos, campos_encriptar, sales)
        clausula_set == Join([i \in 1..Len(datos) |->
                                 Citado(m, datos[i].k)
                                 \o <<Texto(" = "), Marcador(NombreParametro(m, datos[i].k))>>],
                             Texto(", "))
        sql == <<Texto("UPDATE ")>> \o TablaCalificada(m, nombre_tabla, esquema)
               \o <<Texto(" SET ")>> \o clausula_set \o <<Texto(" WHERE ")>>
               \o Citado(m, nombre_clave) \o <<Texto(" = "), Marcador(<<"v", "a", "l", "o", "r", "_", "c", "l", "a", "v", "e">>)>>
        clave_convertida == IF m = "mysql" THEN Retorna(PyStr(valor_clave))
                            ELSE _convertir_valor(m, valor_clave, catalogo[nombre_clave])
    IN  IF EsBlanco(nombre_tabla) \/ EsBlanco(nombre_clave) \/ EsBlanco(valor_clave) \/ datos = <<>>
        THEN SinSentencia("ValueError")
        ELSE IF finales.tipo # "ok" THEN SinSentencia("ValueError")
        ELSE IF ConversionFalla(m, finales.valor, catalogo) \/ clave_convertida.tipo # "ok"
             THEN SinSentencia("RuntimeError")
        ELSE Ejecutada(Sentencia(sql,
                                 DictSet(valores_de(m, finales.valor, catalogo, <<>>),
                                         <<"v", "a", "l", "o", "r", "_", "c", "l", "a", "v", "e">>, clave_convertida.valor)),
                       retorno)

Repositorio_eliminar(m, nombre_tabla, nombre_clave, valor_clave, esquema, catalogo, retorno) ==
    LET sql == <<Texto("DELETE FROM ")>> \o TablaCalificada(m, nombre_tabla, esquema)
               \o <<Texto(" WHERE ")>> \o Citado(m, nombre_clave)
               \o <<Texto(" = "), Marcador(<<"v", "a", "l", "o", "r", "_", "c", "l", "a", "v", "e">>)>>
        valor_convertido == IF m = "mysql" THEN Retorna(PyStr(valor_clave))
                            ELSE _convertir_valor(m, valor_clave, catalogo[nombre_clave])
    IN  IF EsBlanco(nombre_tabla) \/ EsBlanco(nombre_clave) \/ EsBlanco(valor_clave)
        THEN SinSentencia("ValueError")
        ELSE IF valor_convertido.tipo # "ok" THEN SinSentencia("RuntimeError")
        ELSE Ejecutada(Sentencia(sql, <<[k |-> <<"v", "a", "l", "o", "r", "_", "c", "l", "a", "v", "e">>, v |-> valor_convertido.valor]>>),
                       retorno)

-----------------------------------------------------------------------------
(* Inputs of the table repositories.                                        *)

C_id == <<"i", "d">>

C_clave == <<"c", "l", "a", "v", "e">>

C_Clave == <<"C", "l", "a", "v", "e">>

C_edad == <<"e", "d", "a", "d">>

C_email == <<"e", "m", "a", "i", "l">>

C_valor_clave == <<"v", "a", "l", "o", "r", "_", "c", "l", "a", "v", "e">>

Columnas == { C_id, C_clave, C_Clave, C_edad, C_email, C_valor_clave }

TablasRepositorio == { <<>>, <<"u", "s", "u", "a", "r", "i", "o">> }

EsquemasRepositorio == { NoneStr, <<"v">> }

LimitesRepositorio == { PyNone, PyInt(0), PyInt(5) }

ValoresClave == { <<>>, <<"7">>, <<"x">> }

ValoresBusqueda == ValoresClave \cup { <<"2", "0", "2", "4", "-", "0", "1", "-", "1", "5">>, <<"2", "0", "2", "4", "-", "1", "3", "-", "4", "5">> }

DatosRepositorio ==
    { <<>>,
      <<[k |-> C_email, v |-> PyStr(<<"a", "@", "b">>)], [k |-> C_clave, v |-> PyStr(<<"s", "3">>)]>>,
      <<[k |-> C_Clave, v |-> PyStr(<<"s", "3">>)]>>,
      <<[k |-> C_clave, v |-> PyStr(<<>>)]>>,
      <<[k |-> C_clave, v |-> PyStr(<<" ", " ">>)]>>,
      <<[k |-> C_clave, v |-> PyInt(0)]>>,
      <<[k |-> C_clave, v |-> PyInt(42)]>>,
      <<[k |-> C_clave, v |-> PyNone]>>,
      <<[k |-> C_edad, v |-> PyStr(<<"4", "2">>)], [k |-> C_clave, v |-> PyStr(<<"s", "3">>)]>>,
      <<[k |-> C_valor_clave, v |-> PyStr(<<"x">>)]>> }

CamposEncriptar == { NoneStr, C_clave, <<" ", "C", "l", "a", "v", "e", " ", ",", " ", "o", "t", "r", "o">>, <<",">> }

SalesRepositorio == { <<"s1", "s2">>, <<"s2", "s1">> }

\* the catalog: the type of id, of clave/Clave and of edad; no other column
\* is known to it
Catalogo(tipo_id, tipo_clave, tipo_edad) ==
    [c \in Columnas |->
        CASE c = C_id                -> tipo_id
          [] c \in {C_clave, C_Clave} -> tipo_clave
          [] c = C_edad              -> tipo_edad
          [] OTHER                   -> "None"]

Catalogos ==
    { Catalogo("None", "None", "None"),
      Catalogo("integer", "character varying", "integer"),
      Catalogo("int", "bit", "decimal"),
      Catalogo("integer", "boolean", "numeric"),
      Catalogo("timestamp without time zone", "numeric", "date"),
      Catalogo("datetime", "decimal", "time") }

\* what the engine does with the statement: a row count, or an error
RetornosMotor == { Retorna(1), Lanza("DBAPIError") }

-----------------------------------------------------------------------------
(* The table repositories: one action per operation, on the engine chosen   *)
(* at start-up.                                                             *)

ResponderRepositorio(p, r) ==
    /\ peticion = PeticionNinguna
    /\ peticion' = p
    /\ resultado' = r.resultado
    /\ sentencias' = r.sentencias
    /\ UNCHANGED <<tablas_prohibidas, motor, llamadas>>

ObtenerFilas ==
    \E nombre_tabla \in TablasRepositorio, esquema \in EsquemasRepositorio,
       limite \in LimitesRepositorio, retorno \in RetornosMotor :
        ResponderRepositorio(
            [op |-> "obtener_filas", nombre_tabla |-> nombre_tabla,
             esquema |-> esquema, limite |-> limite],
            Repositorio_obtener_filas(motor, nombre_tabla, esquema, limite, retorno))

ObtenerPorClaveRepositorio ==
    \E nombre_tabla \in TablasRepositorio, valor \in ValoresBusqueda,
       esquema \in EsquemasRepositorio, catalogo \in Catalogos,
       retorno \in RetornosMotor :
        ResponderRepositorio(
            [op |-> "obtener_por_clave", nombre_tabla |-> nombre_tabla,
             nombre_clave |-> C_id, valor |-> valor, esquema |-> esquema,
             catalogo |-> catalogo],
            Repositorio_obtener_por_clave(motor, nombre_tabla, C_id, valor, esquema,
                                          catalogo, retorno))

CrearRepositorio ==
    \E nombre_tabla \in TablasRepositorio, datos \in DatosRepositorio,
       esquema \in EsquemasRepositorio, campos_encriptar \in CamposEncriptar,
       sales \in SalesRepositorio, catalogo \in Catalogos, retorno \in RetornosMotor :
        ResponderRepositorio(
            [op |-> "crear", nombre_tabla |-> nombre_tabla, datos |-> datos,
             esquema |-> esquema, campos_encriptar |-> campos_encriptar,
             catalogo |-> catalogo],
            Repositorio_crear(motor, nombre_tabla, datos, esquema, campos_encriptar,
                              sales, catalogo, retorno))

ActualizarRepositorio ==
    \E nombre_tabla \in TablasRepositorio, valor_clave \in ValoresClave,
       datos \in DatosRepositorio, esquema \in EsquemasRepositorio,
       campos_encriptar \in CamposEncriptar, sales \in SalesRepositorio,
       catalogo \in Catalogos, retorno \in RetornosMotor :
        ResponderRepositorio(
            [op |-> "actualizar", nombre_tabla |-> nombre_tabla,
             nombre_clave |-> C_id, valor_clave |-> valor_clave, datos |-> datos,
             esquema |-> esquema, campos_encriptar |-> campos_encriptar,
             catalogo |-> catalogo],
            Repositorio_actualizar(motor, nombre_tabla, C_id, valor_clave, datos,
                                   esquema, campos_encriptar, sales, catalogo, retorno))

EliminarRepositorio ==
    \E nombre_tabla \in TablasRepositorio, valor_clave \in ValoresClave,
       esquema \in EsquemasRepositorio, catalogo \in Catalogos,
       retorno \in RetornosMotor :
        ResponderRepositorio(
            [op |-> "eliminar", nombre_tabla |-> nombre_tabla,
             nombre_clave |-> C_id, valor_clave |-> valor_clave,
             esquema |-> esquema, catalogo |-> catalogo],
            Repositorio_eliminar(motor, nombre_tabla, C_id, valor_clave, esquema,
                                 catalogo, retorno))

InitLectura ==
    /\ tablas_prohibidas = <<>>
    /\ motor \in Motores
    /\ peticion = PeticionNinguna
    /\ resultado = ResultadoNinguno
    /\ llamadas = <<>>
    /\ sentencias = <<>>

NextLectura ==
    \/ ObtenerFilas
    \/ ObtenerPorClaveRepositorio
    \/ CrearRepositorio
    \/ ActualizarRepositorio
    \/ EliminarRepositorio

SpecLectura == InitLectura /\ [][NextLectura]_vars

-----------------------------------------------------------------------------
(* C4, C5 *)

\* Two Python values are the same value of the same type.
MismoValor(a, b) == a.t = b.t /\ a = b

\* C4: in every engine and for every operation no value supplied by the caller
\* (row limit, key value, column value) appears inside the SQL text sent to the
\* engine: every such value is passed as a bound parameter and only
\* identifiers are interpolated.
C4_SinValoresEnElTexto ==
    /\ \A i \in 1..Len(sentencias) :
           \A j \in 1..Len(sentencias[i].sql) :
               sentencias[i].sql[j].o = "interpolado"
                   => sentencias[i].sql[j].origen # "llamador"
    /\ (peticion.op = "obtener_filas" /\ sentencias # <<>> /\ EsVerdadero(peticion.limite))
           => \E k \in 1..Len(sentencias[1].params) :
                  MismoValor(sentencias[1].params[k].v, peticion.limite)

\* The column name is in the caller's encrypt list, names compared
\* case-insensitively.
EnListaDeEncriptar(campo, campos_encriptar) ==
    /\ campos_encriptar # NoneStr
    /\ \E c \in Rango(Split(campos_encriptar, ",")) : Lower(Strip(c)) = Lower(campo)

\* C5, for the columns that hold a non-blank text and that the catalog does
\* not type: crear and actualizar, in every engine, bind every column of the
\* data map whose name is in the caller's encrypt list as a salted hash h of
\* its supplied value v with verify(v, h) = true, never as the plaintext, and
\* every column not in the list with its supplied value.
C5_EncriptadoAntesDeEnlazar ==
    (peticion.op \in {"crear", "actualizar"} /\ sentencias # <<>>)
        => \A i \in 1..Len(peticion.datos) :
               LET k == peticion.datos[i].k
                   v == peticion.datos[i].v
                   b == DictGet(sentencias[1].params, NombreParametro(motor, k))
               IN  (v.t = "str" /\ ~EsBlanco(v.v) /\ peticion.catalogo[k] = "None")
                       => IF EnListaDeEncriptar(k, peticion.campos_encriptar)
                          THEN b.t = "str" /\ ~MismoValor(b, v) /\ verificar(v.v, b.v)
                          ELSE MismoValor(b, v)

-----------------------------------------------------------------------------
(* repositorios/repositorio_consultas_{postgresql,sqlserver,mysql_mariadb}.py *)
(* ejecutar_consulta_parametrizada_con_dictionary                            *)
(*                                                                           *)
(* The statement sent is [sql, params]: the final text, character by         *)
(* character, and the list of values handed to the driver. What the engine   *)
(* answers, the rows of the query or an error, is an input. A row is         *)
(* modelled by its position in the engine's answer.                          *)

\* the rows the engine produces for a query of n rows
Filas(n) == [i \in 1..n |-> i]

\* rows, with no slice
RecorteSinLimite(rows, maximo_registros) == rows

\* rows[:maximo_registros], for maximo_registros >= 0
Recorte(rows, maximo_registros) ==
    SubSeq(rows, 1, IF Len(rows) < maximo_registros THEN Len(rows) ELSE maximo_registros)

\* $N, ?, %s
MarcadorNativo(m, param_index) ==
    CASE m = "postgresql" -> <<"$">> \o NatATexto(param_index)
      [] m = "sqlserver"  -> <<"?">>
      [] m = "mysql"      -> <<"%", "s">>

SinEstrechar(valor) == valor

\* a datetime whose hour, minute and second are 0 becomes its date
FechaSiMedianoche(valor) ==
    IF valor.t = "datetime" /\ valor.hora = 0 /\ valor.minuto = 0 /\ valor.segundo = 0
    THEN PyDate(valor.fecha)
    ELSE valor

\* the loop over (parametros or {}).items()
RECURSIVE PrepararConsulta(_, _, _, _, _)
PrepararConsulta(m, consulta_final, valores, pendientes, param_index) ==
    IF pendientes = <<>> THEN [consulta_final |-> consulta_final, valores |-> valores]
    ELSE PrepararConsulta(m,
             Replace(consulta_final, ConArroba(Head(pendientes).k),
                     MarcadorNativo(m, param_index)),
             Append(valores, FechaSiMedianoche(Head(pendientes).v)),
             Tail(pendientes), param_index + 1)

\* parametros is PyNone or a PyDict; retorno is what the engine answers:
\* [tipo |-> "ok", n |-> number of rows] or an error
RepositorioConsultas_ejecutar(m, consulta_sql, parametros, maximo_registros, retorno) ==
    LET items == IF parametros.t = "None" THEN <<>> ELSE parametros.items
        preparada == PrepararConsulta(m, consulta_sql, <<>>, items, 1)
    IN  IF m = "mysql" /\ EsBlanco(consulta_sql) THEN SinSentencia("ValueError")
        ELSE [resultado  |-> IF retorno.tipo = "ok"
                             THEN Retorna(Recorte(Filas(retorno.n), maximo_registros))
                             ELSE Lanza(retorno.tipo),
              sentencias |-> <<Sentencia(preparada.consulta_final, preparada.valores)>>]

-----------------------------------------------------------------------------
(* controllers/consultas_controller.py: POST ejecutarconsultaparametrizada  *)

MAXIMO_REGISTROS_ENDPOINT == 10000

HTTPException(status_code) == [tipo |-> "HTTPException", status_code |-> status_code]

\* the service over the repository of the configured engine
ServicioSobreRepositorio(m, consulta, parametros, retorno) ==
    LET parametros_genericos == _convertir_parametros_desde_json(parametros)
        v == validar_consulta_sql(consulta, lista_tablas_prohibidas)
    IN  IF parametros_genericos.tipo # "ok" THEN SinSentencia("ValueError")
        ELSE IF ~v.valida THEN SinSentencia("PermissionError")
        ELSE RepositorioConsultas_ejecutar(m, consulta, PyDict(parametros_genericos.valor),
                                           MAXIMO_REGISTROS_POR_DEFECTO, retorno)

Endpoint_ejecutar_consulta_parametrizada(m, consulta, parametros, retorno) ==
    LET r == ServicioSobreRepositorio(m, consulta, parametros, retorno)
    IN  IF EsBlanco(consulta)
        THEN [resultado |-> HTTPException(400), sentencias |-> <<>>]
        ELSE [resultado |->
                  CASE r.resultado.tipo = "PermissionError" -> HTTPException(403)
                    [] r.resultado.tipo = "ValueError"      -> HTTPException(400)
                    [] r.resultado.tipo # "ok"              -> HTTPException(500)
                    [] OTHER ->
                        IF Len(r.resultado.valor) = 0 THEN HTTPException(404)
                        ELSE Retorna([Resultados  |-> r.resultado.valor,
                                      Total       |-> Len(r.resultado.valor),
                                      Advertencia |->
                                          IF Len(r.resultado.valor) = MAXIMO_REGISTROS_ENDPOINT
                                          THEN "Se alcanzo el limite de registros."
                                          ELSE "None"]),
              sentencias |-> r.sentencias]

-----------------------------------------------------------------------------
(* Inputs of the query repositories and of the query endpoint.              *)

MaxFilas == 3

\* n rows for a direct call, up to one more than the largest cap
RetornosConsultaRepositorio ==
    { [tipo |-> "ok", n |-> n] : n \in 0..(MaxFilas + 1) } \cup { Lanza("DBError") }

ConsultasRepositorio ==
    { <<"S", "E", "L", "E", "C", "T", " ", "1">>,
      <<"S", "E", "L", "E", "C", "T", " ", "@", "a", ",", " ", "@", "b">>,
      <<"S", "E", "L", "E", "C", "T", " ", "@", "a", ",", " ", "@", "a">>,
      <<"S", "E", "L", "E", "C", "T", " ", "@", "i", "d", ",", " ", "@", "i", "d", "_", "c">>,
      <<" ", " ">> }

ParametrosRepositorio ==
    { PyNone,
      PyDict(<<>>),
      PyDict(<<[k |-> <<"@", "a">>, v |-> PyInt(1)], [k |-> <<"@", "b">>, v |-> PyInt(2)]>>),
      PyDict(<<[k |-> <<"@", "b">>, v |-> PyInt(2)], [k |-> <<"@", "a">>, v |-> PyInt(1)]>>),
      PyDict(<<[k |-> <<"a">>, v |-> PyInt(1)]>>),
      PyDict(<<[k |-> <<"@", "i", "d">>, v |-> PyInt(1)], [k |-> <<"@", "i", "d", "_", "c">>, v |-> PyInt(2)]>>),
      PyDict(<<[k |-> <<"@", "i", "d", "_", "c">>, v |-> PyInt(2)], [k |-> <<"@", "i", "d">>, v |-> PyInt(1)]>>),
      PyDict(<<[k |-> <<"@", "a">>, v |-> PyDatetime(<<"2", "0", "2", "4", "-", "0", "1", "-", "1", "5">>, 0, 0, 0, 0)],
               [k |-> <<"@", "b">>, v |-> PyDatetime(<<"2", "0", "2", "4", "-", "0", "1", "-", "1", "5">>, 10, 30, 0, 0)]>>) }

\* the row counts around the cap of the endpoint
RetornosConsultaEndpoint ==
    { [tipo |-> "ok", n |-> n] :
          n \in {0, 1, MAXIMO_REGISTROS_ENDPOINT - 1, MAXIMO_REGISTROS_ENDPOINT,
                 MAXIMO_REGISTROS_ENDPOINT + 1, MAXIMO_REGISTROS_ENDPOINT + 50} }
    \cup { Lanza("DBError") }

ConsultasEndpoint ==
    { <<"S", "E", "L", "E", "C", "T", " ", "@", "a", " ", "F", "R", "O", "M", " ", "p", "r", "o", "d">>, <<"s", "e", "l", "e", "c", "t", " ", "*", " ", "f", "r", "o", "m", " ", "a", "u", "d">>, <<"D", "E", "L", "E", "T", "E", " ", "F", "R", "O", "M", " ", "p", "r", "o", "d">>, <<>> }

ParametrosEndpoint ==
    { PyNone,
      PyDict(<<[k |-> <<"a">>, v |-> PyInt(1)]>>),
      PyDict(<<[k |-> <<"a">>, v |-> PyStr(<<"2", "0", "2", "4", "-", "0", "1", "-", "1", "5">>)]>>),
      PyDict(<<[k |-> <<"a", " ", "b">>, v |-> PyInt(1)]>>) }

-----------------------------------------------------------------------------
(* The query repositories and the endpoint over them, on the engine chosen  *)
(* at start-up.                                                             *)

EjecutarConsultaRepositorio ==
    \E consulta_sql \in ConsultasRepositorio, parametros \in ParametrosRepositorio,
       maximo_registros \in 0..MaxFilas, retorno \in RetornosConsultaRepositorio :
        ResponderRepositorio(
            [op |-> "consulta_repositorio", consulta |-> consulta_sql,
             parametros |-> parametros, maximo_registros |-> maximo_registros,
             retorno |-> retorno],
            RepositorioConsultas_ejecutar(motor, consulta_sql, parametros,
                                          maximo_registros, retorno))

EjecutarConsultaEndpoint ==
    \E consulta \in ConsultasEndpoint, parametros \in ParametrosEndpoint,
       retorno \in RetornosConsultaEndpoint :
        ResponderRepositorio(
            [op |-> "consulta_endpoint", consulta |-> consulta,
             parametros |-> parametros,
             maximo_registros |-> MAXIMO_REGISTROS_ENDPOINT, retorno |-> retorno],
            Endpoint_ejecutar_consulta_parametrizada(motor, consulta, parametros,
                                                     retorno))

InitConsultas ==
    /\ tablas_prohibidas \in { <<>>, T_aud }
    /\ motor \in Motores
    /\ peticion = PeticionNinguna
    /\ resultado = ResultadoNinguno
    /\ llamadas = <<>>
    /\ sentencias = <<>>

NextConsultas ==
    \/ EjecutarConsultaRepositorio
    \/ EjecutarConsultaEndpoint

SpecConsultas == InitConsultas /\ [][NextConsultas]_vars

-----------------------------------------------------------------------------
(* C6 *)

Minimo(a, b) == IF a < b THEN a ELSE b

\* The engine ran the query of the request and produced its n rows.
ConsultaProdujoFilas ==
    /\ peticion.op \in {"consulta_repositorio", "consulta_endpoint"}
    /\ sentencias # <<>>
    /\ peticion.retorno.tipo = "ok"

\* The repository returned exactly the first min(n, maxRows) rows, no error.
C6_PrimerasFilas ==
    (ConsultaProdujoFilas /\ peticion.op = "consulta_repositorio")
        => resultado = Retorna(Filas(Minimo(peticion.retorno.n, peticion.maximo_registros)))

\* C6 as stated: ad-hoc execution of a query of n rows with cap maxRows returns
\* exactly the first min(n, maxRows) rows and no error, and the 'Advertencia'
\* of the query endpoint is set exactly when rows were dropped (n > maxRows).
C6_Original ==
    /\ C6_PrimerasFilas
    /\ (ConsultaProdujoFilas /\ peticion.op = "consulta_endpoint")
           => /\ resultado.tipo = "ok"
              /\ resultado.valor.Resultados
                     = Filas(Minimo(peticion.retorno.n, peticion.maximo_registros))
              /\ (resultado.valor.Advertencia # "None")
                     <=> (peticion.retorno.n > peticion.maximo_registros)

\* C6, amended: ad-hoc execution of a query of n rows with cap maxRows returns
\* exactly the first min(n, maxRows) rows and no error; the query endpoint
\* answers 404 when n = 0, and otherwise returns those rows with 'Advertencia'
\* set exactly when as many rows as the cap are returned (n >= maxRows), also
\* when n = maxRows and no row was dropped.
C6_RecorteYAdvertencia ==
    /\ C6_PrimerasFilas
    /\ (ConsultaProdujoFilas /\ peticion.op = "consulta_endpoint")
           => IF peticion.retorno.n = 0
              THEN resultado = HTTPException(404)
              ELSE /\ resultado.tipo = "ok"
                   /\ resultado.valor.Resultados
                          = Filas(Minimo(peticion.retorno.n, peticion.maximo_registros))
                   /\ (resultado.valor.Advertencia # "None")
                          <=> (peticion.retorno.n >= peticion.maximo_registros)

C6_Witness ==
    /\ ConsultaProdujoFilas
    /\ peticion.op = "consulta_endpoint"
    /\ peticion.retorno.n = MAXIMO_REGISTROS_ENDPOINT + 50
    /\ resultado.tipo = "ok"
    /\ Len(resultado.valor.Resultados) = MAXIMO_REGISTROS_ENDPOINT
    /\ resultado.valor.Advertencia # "None"

-----------------------------------------------------------------------------
(* C7 *)

\* What a statement means: its text with every placeholder resolved to the
\* value it binds. A piece is a character of text or a bound value.
Car(c) == [o |-> "texto", c |-> c, v |-> PyNone]

Lig(v) == [o |-> "valor", c |-> "", v |-> v]

SinValor == [t |-> "ausente"]

ValorEn(valores, i) == IF i \in 1..Len(valores) THEN valores[i] ELSE SinValor

\* the longest prefix of s made of word characters
RECURSIVE PrefijoPalabra(_)
PrefijoPalabra(s) ==
    IF s # <<>> /\ EsCaracterPalabra(Head(s))
    THEN <<Head(s)>> \o PrefijoPalabra(Tail(s))
    ELSE <<>>

\* the longest prefix of s made of digits
RECURSIVE PrefijoDigitos(_)
PrefijoDigitos(s) ==
    IF s # <<>> /\ Head(s) \in Digitos
    THEN <<Head(s)>> \o PrefijoDigitos(Tail(s))
    ELSE <<>>

Resto(s, n) == SubSeq(s, n + 1, Len(s))

\* The parameter map with every name carrying its @.
ConNombresNormalizados(items) ==
    [i \in 1..Len(items) |-> [k |-> ConArroba(items[i].k), v |-> items[i].v]]

\* The query as the caller means it: every @name of the map stands for the
\* value supplied under that name, every other character is text.
RECURSIVE Esperado(_, _)
Esperado(texto, items) ==
    IF texto = <<>> THEN <<>>
    ELSE IF Head(texto) = "@" /\ DictTiene(items, <<"@">> \o PrefijoPalabra(Tail(texto)))
         THEN <<Lig(DictGet(items, <<"@">> \o PrefijoPalabra(Tail(texto))))>>
              \o Esperado(Resto(texto, 1 + Len(PrefijoPalabra(Tail(texto)))), items)
    ELSE <<Car(Head(texto))>> \o Esperado(Tail(texto), items)

\* The statement as the engine reads it: $N binds the N-th value, the k-th ?
\* or %s binds the k-th value.
RECURSIVE Resuelto(_, _, _, _)
Resuelto(m, texto, valores, k) ==
    IF texto = <<>> THEN <<>>
    ELSE IF m = "postgresql" /\ Head(texto) = "$" /\ PrefijoDigitos(Tail(texto)) # <<>>
         THEN <<Lig(ValorEn(valores, ParseNat(PrefijoDigitos(Tail(texto)))))>>
              \o Resuelto(m, Resto(texto, 1 + Len(PrefijoDigitos(Tail(texto)))), valores, k)
    ELSE IF m = "sqlserver" /\ Head(texto) = "?"
         THEN <<Lig(ValorEn(valores, k))>> \o Resuelto(m, Tail(texto), valores, k + 1)
    ELSE IF m = "mysql" /\ Len(texto) >= 2 /\ SubSeq(texto, 1, 2) = <<"%", "s">>
         THEN <<Lig(ValorEn(valores, k))>> \o Resuelto(m, Resto(texto, 2), valores, k + 1)
    ELSE <<Car(Head(texto))>> \o Resuelto(m, Tail(texto), valores, k)

\* The positions of the value list that the placeholders of the text bind.
PosicionesEnlazadas(m, texto) ==
    IF m = "postgresql"
    THEN { ParseNat(PrefijoDigitos(Resto(texto, i))) :
               i \in { j \in 1..Len(texto) :
                           texto[j] = "$" /\ PrefijoDigitos(Resto(texto, j)) # <<>> } }
    ELSE 1..Cardinality({ i \in 1..Len(texto) :
                              IF m = "sqlserver" THEN texto[i] = "?"
                              ELSE i < Len(texto) /\ texto[i] = "%" /\ texto[i + 1] = "s" })

\* a direct call of the ad-hoc execution with a parameter map in which no
\* value is a timestamp
C7_Caso ==
    /\ peticion.op = "consulta_repositorio"
    /\ sentencias # <<>>
    /\ peticion.parametros.t = "dict"
    /\ \A i \in 1..Len(peticion.parametros.items) :
           peticion.parametros.items[i].v.t = "int"

\* C7: placeholder rewriting of the ad-hoc query, in every engine, whatever the
\* map's order, also when a name occurs more than once in the text, does not
\* occur in it, or is a prefix of another name: every occurrence of @name is
\* replaced by a native placeholder that binds to the value supplied under
\* that name, the number of placeholders matches the bound value list, and no
\* other text of the query is altered.
C7_ReescrituraDeMarcadores ==
    C7_Caso =>
        /\ Resuelto(motor, sentencias[1].sql, sentencias[1].params, 1)
               = Esperado(peticion.consulta,
                          ConNombresNormalizados(peticion.parametros.items))
        /\ PosicionesEnlazadas(motor, sentencias[1].sql) = 1..Len(sentencias[1].params)

-----------------------------------------------------------------------------
(* repositorios/repositorio_consultas_{postgresql,sqlserver,mysql_mariadb}.py *)
(* ejecutar_procedimiento_almacenado_con_dictionary                          *)
(*                                                                           *)
(* What the catalog holds about the routine is an input: its ROUTINE_TYPE    *)
(* ("None" when the catalog has no row for the name) and its parameters in   *)
(* ordinal order, each [nombre, modo, tipo, max_length].                     *)

\* clave[1:] if clave.startswith("@") else clave
SinArroba(clave) == IF StartsWith(clave, <<"@">>) THEN Tail(clave) ELSE clave

\* d.get(k)
DictGetONone(d, k) == IF DictTiene(d, k) THEN DictGet(d, k) ELSE PyNone

\* parametros_normalizados[clave_normalizada.lower()] = valor, over the items
RECURSIVE parametros_normalizados(_, _)
parametros_normalizados(normalizados, pendientes) ==
    IF pendientes = <<>> THEN normalizados
    ELSE parametros_normalizados(
             DictSet(normalizados, Lower(SinArroba(Head(pendientes).k)), Head(pendientes).v),
             Tail(pendientes))

\* int(valor)
PyIntDe(valor) ==
    CASE valor.t = "int"   -> Retorna(valor)
      [] valor.t = "bool"  -> Retorna(PyInt(IF valor.v THEN 1 ELSE 0))
      [] valor.t = "float" -> Retorna(PyInt(IF valor.neg THEN 0 - valor.e ELSE valor.e))
      [] valor.t = "str"   -> (IF EsTextoEntero(valor.v) THEN Retorna(PyInt(ValorEntero(valor.v)))
                               ELSE Lanza("ValueError"))
      [] OTHER             -> Lanza("TypeError")

\* float(valor)
PyFloatDe(valor) ==
    CASE valor.t = "float" -> Retorna(valor)
      [] valor.t = "int"   -> Retorna(PyFloat(valor.v < 0,
                                              IF valor.v < 0 THEN 0 - valor.v ELSE valor.v,
                                              <<>>))
      [] valor.t = "bool"  -> Retorna(PyFloat(FALSE, IF valor.v THEN 1 ELSE 0, <<>>))
      [] valor.t = "str"   -> (IF EsTextoFloat(valor.v) THEN Retorna(ValorFloat(valor.v))
                               ELSE Lanza("ValueError"))
      [] OTHER             -> Lanza("TypeError")

\* a text whose first character after trimming is { or [
ParecJson(valor) ==
    /\ valor.t = "str"
    /\ Strip(valor.v) # <<>>
    /\ Head(Strip(valor.v)) \in {"{", "["}

\* any(x in nombre_lower for x in ["roles", "detalles", "json", "data"])
NombreComunJson(nombre_param) ==
    \E x \in {<<"r", "o", "l", "e", "s">>, <<"d", "e", "t", "a", "l", "l", "e", "s">>, <<"j", "s", "o", "n">>, <<"d", "a", "t", "a">>} : Contiene(Lower(nombre_param), x)

\* detection by the parameter's name alone
_es_json_por_nombre(tipo, nombre_param, valor) ==
    \/ Lower(tipo) \in {<<"j", "s", "o", "n">>, <<"j", "s", "o", "n", "b">>}
    \/ /\ valor.t = "str"
       /\ Strip(valor.v) # <<>>
       /\ ParecJson(valor) \/ NombreComunJson(nombre_param)

\* PostgreSQL: by type, by content, by name and content
_es_json_postgresql(tipo, nombre_param, valor) ==
    \/ Lower(tipo) \in {<<"j", "s", "o", "n">>, <<"j", "s", "o", "n", "b">>}
    \/ /\ valor.t = "str"
       /\ Strip(valor.v) # <<>>
       /\ ParecJson(valor) \/ (NombreComunJson(nombre_param) /\ ParecJson(valor))

\* SQL Server; max_length is PyNone or a PyInt
_es_json_sqlserver(tipo, max_length, nombre_param, valor) ==
    \/ Lower(tipo) = <<"n", "v", "a", "r", "c", "h", "a", "r">> /\ max_length = PyInt(-1)
    \/ /\ valor.t = "str"
       /\ Strip(valor.v) # <<>>
       /\ ParecJson(valor) \/ (NombreComunJson(nombre_param) /\ ParecJson(valor))

PyBoolDe(valor) ==
    IF valor.t = "bool" THEN valor
    ELSE IF valor.t = "str" THEN PyBool(Lower(valor.v) \in {<<"t", "r", "u", "e">>, <<"1">>, <<"y", "e", "s">>, <<"s", "i">>})
    ELSE PyBool(EsVerdadero(valor))

\* PostgreSQL: for the date type every datetime becomes its date
_convertir_valor_segun_tipo_postgresql(valor, tipo, nombre_param) ==
    IF valor.t = "None" THEN Retorna(PyNone)
    ELSE IF _es_json_postgresql(tipo, nombre_param, valor)
         THEN Retorna(PyStr(IF valor.t \in {"dict", "list"} THEN json_dumps(valor)
                            ELSE str(valor)))
    ELSE IF Lower(tipo) \in {<<"i", "n", "t", "e", "g", "e", "r">>, <<"i", "n", "t">>, <<"i", "n", "t", "4">>, <<"b", "i", "g", "i", "n", "t">>, <<"i", "n", "t", "8">>}
         THEN PyIntDe(valor)
    ELSE IF Lower(tipo) \in {<<"n", "u", "m", "e", "r", "i", "c">>, <<"d", "e", "c", "i", "m", "a", "l">>} THEN PyFloatDe(valor)
    ELSE IF Lower(tipo) \in {<<"c", "h", "a", "r", "a", "c", "t", "e", "r", " ", "v", "a", "r", "y", "i", "n", "g">>, <<"v", "a", "r", "c", "h", "a", "r">>, <<"t", "e", "x", "t">>}
         THEN Retorna(PyStr(str(valor)))
    ELSE IF Lower(tipo) \in {<<"b", "o", "o", "l", "e", "a", "n">>, <<"b", "o", "o", "l">>} THEN Retorna(PyBoolDe(valor))
    ELSE IF Lower(tipo) = <<"d", "a", "t", "e">>
         THEN Retorna(IF valor.t = "datetime" THEN PyDate(valor.fecha) ELSE valor)
    ELSE Retorna(valor)

\* SQL Server: for the date type a datetime at 00:00:00 becomes its date
_convertir_valor_segun_tipo_sqlserver(valor, tipo, max_length, nombre_param) ==
    IF valor.t = "None" THEN Retorna(PyNone)
    ELSE IF _es_json_sqlserver(tipo, max_length, nombre_param, valor)
         THEN Retorna(PyStr(str(valor)))
    ELSE IF Lower(tipo) \in {<<"v", "a", "r", "c", "h", "a", "r">>, <<"n", "v", "a", "r", "c", "h", "a", "r">>, <<"c", "h", "a", "r">>, <<"n", "c", "h", "a", "r">>}
         THEN Retorna(PyStr(str(valor)))
    ELSE IF Lower(tipo) = <<"d", "a", "t", "e">> THEN Retorna(FechaSiMedianoche(valor))
    ELSE IF Lower(tipo) \in {<<"i", "n", "t">>, <<"b", "i", "g", "i", "n", "t">>} THEN PyIntDe(valor)
    ELSE IF Lower(tipo) \in {<<"d", "e", "c", "i", "m", "a", "l">>, <<"n", "u", "m", "e", "r", "i", "c">>} THEN PyFloatDe(valor)
    ELSE IF Lower(tipo) = <<"b", "i", "t">> THEN Retorna(PyBoolDe(valor))
    ELSE Retorna(valor)

\* MySQL/MariaDB: _convertir_valor, no type is looked at
_convertir_valor_mysql(valor) == FechaSiMedianoche(valor)

\* the position of the first '.', 0 when there is none
PosicionPunto(s) ==
    IF \E i \in 1..Len(s) : s[i] = "."
    THEN CHOOSE i \in 1..Len(s) : s[i] = "." /\ \A j \in 1..(i - 1) : s[j] # "."
    ELSE 0

\* ", ".join of the markers of n arguments
Marcadores(m, n) ==
    Join([i \in 1..n |-> <<Marcador(MarcadorNativo(m, i))>>], Texto(", "))

\* the call was sent: rows or the engine's error
Llamada(sql, valores, retorno) ==
    [resultado  |-> IF retorno.tipo = "ok" THEN Retorna(Filas(retorno.n))
                    ELSE Lanza(retorno.tipo),
     sentencias |-> <<Sentencia(sql, valores)>>]

PostgreSQL_ejecutar_procedimiento_almacenado(nombre_sp, parametros, resultado_tipo, metadatos, retorno) ==
    LET punto == PosicionPunto(nombre_sp)
        esquema == IF punto = 0 THEN NoneStr ELSE Strip(SubSeq(nombre_sp, 1, punto - 1))
        nombre_sp_sin_esquema == IF punto = 0 THEN nombre_sp ELSE Strip(Resto(nombre_sp, punto))
        tipo_rutina == IF resultado_tipo = "None" THEN "PROCEDURE" ELSE resultado_tipo
        normalizados == parametros_normalizados(
                            <<>>, IF parametros.t = "None" THEN <<>> ELSE parametros.items)
        parametros_entrada == SelectSeq(metadatos, LAMBDA meta : meta.modo \in {"IN", "INOUT"})
        nombre_completo_sp == IF esquema # NoneStr /\ esquema # <<>>
                              THEN esquema \o <<".">> \o nombre_sp_sin_esquema
                              ELSE nombre_sp_sin_esquema
        convertidos == [i \in 1..Len(parametros_entrada) |->
                           _convertir_valor_segun_tipo_postgresql(
                               DictGetONone(normalizados, Lower(parametros_entrada[i].nombre)),
                               parametros_entrada[i].tipo, parametros_entrada[i].nombre)]
        sql_llamada == <<Texto(IF tipo_rutina = "FUNCTION" THEN "SELECT * FROM " ELSE "CALL "),
                         Identificador(nombre_completo_sp), Texto("(")>>
                       \o Marcadores("postgresql", Len(parametros_entrada))
                       \o <<Texto(")")>>
    IN  IF EsBlanco(nombre_sp) THEN SinSentencia("ValueError")
        ELSE IF \E i \in 1..Len(convertidos) : convertidos[i].tipo # "ok"
             THEN SinSentencia(convertidos[CHOOSE i \in 1..Len(convertidos) :
                                   /\ convertidos[i].tipo # "ok"
                                   /\ \A j \in 1..(i - 1) : convertidos[j].tipo = "ok"].tipo)
        ELSE Llamada(sql_llamada,
                     [i \in 1..Len(convertidos) |-> convertidos[i].valor], retorno)

SqlServer_ejecutar_procedimiento_almacenado(nombre_sp, parametros, resultado_tipo, metadatos, retorno) ==
    LET tipo_rutina == IF resultado_tipo = "None" THEN "PROCEDURE" ELSE resultado_tipo
        normalizados == parametros_normalizados(
                            <<>>, IF parametros.t = "None" THEN <<>> ELSE parametros.items)
        \* es_output: the catalog query reports OUT and INOUT as output
        parametros_entrada == SelectSeq(metadatos, LAMBDA meta : meta.modo \notin {"OUT", "INOUT"})
        convertidos == [i \in 1..Len(parametros_entrada) |->
                           _convertir_valor_segun_tipo_sqlserver(
                               DictGetONone(normalizados,
                                            Lower(SinArroba(parametros_entrada[i].nombre))),
                               parametros_entrada[i].tipo, parametros_entrada[i].max_length,
                               parametros_entrada[i].nombre)]
        params_call == Join([i \in 1..Len(parametros_entrada) |->
                                <<Texto("@"),
                                  Identificador(SinArroba(parametros_entrada[i].nombre)),
                                  Texto(" = "), Marcador(MarcadorNativo("sqlserver", i))>>],
                            Texto(", "))
        sql_llamada == IF tipo_rutina = "FUNCTION"
                       THEN <<Texto("SELECT dbo."), Identificador(nombre_sp), Texto("(")>>
                            \o Marcadores("sqlserver", Len(parametros_entrada))
                            \o <<Texto(") AS Resultado")>>
                       ELSE IF params_call # <<>>
                            THEN <<Texto("EXEC "), Identificador(nombre_sp), Texto(" ")>>
                                 \o params_call
                       ELSE <<Texto("EXEC "), Identificador(nombre_sp)>>
    IN  IF EsBlanco(nombre_sp) THEN SinSentencia("ValueError")
        ELSE IF \E i \in 1..Len(convertidos) : convertidos[i].tipo # "ok"
             THEN SinSentencia(convertidos[CHOOSE i \in 1..Len(convertidos) :
                                   /\ convertidos[i].tipo # "ok"
                                   /\ \A j \in 1..(i - 1) : convertidos[j].tipo = "ok"].tipo)
        ELSE Llamada(sql_llamada,
                     [i \in 1..Len(convertidos) |-> convertidos[i].valor], retorno)

\* MySQL/MariaDB: the catalog is not consulted
Mysql_ejecutar_procedimiento_almacenado(nombre_sp, parametros, retorno) ==
    LET items == IF parametros.t = "None" THEN <<>> ELSE parametros.items
    IN  IF EsBlanco(nombre_sp) THEN SinSentencia("ValueError")
        ELSE Llamada(<<Texto("CALL "), Identificador(nombre_sp), Texto("(")>>
                     \o Marcadores("mysql", Len(items)) \o <<Texto(")")>>,
                     [i \in 1..Len(items) |-> _convertir_valor_mysql(items[i].v)],
                     retorno)

\* the catalog's parameter names: SQL Server reports them with their @
MetadatosDelMotor(m, metadatos) ==
    [i \in 1..Len(metadatos) |->
        [metadatos[i] EXCEPT !.nombre = IF m = "sqlserver" THEN <<"@">> \o @ ELSE @]]

RepositorioConsultas_ejecutar_procedimiento(m, nombre_sp, parametros, resultado_tipo, metadatos, retorno) ==
    CASE m = "postgresql" ->
             PostgreSQL_ejecutar_procedimiento_almacenado(
                 nombre_sp, parametros, resultado_tipo, MetadatosDelMotor(m, metadatos), retorno)
      [] m = "sqlserver" ->
             SqlServer_ejecutar_procedimiento_almacenado(
                 nombre_sp, parametros, resultado_tipo, MetadatosDelMotor(m, metadatos), retorno)
      [] m = "mysql" ->
             Mysql_ejecutar_procedimiento_almacenado(nombre_sp, parametros, retorno)

(* Inputs of the routine requests *)

NombresRutina == { <<"f">>, <<"v", ".", "f">>, <<" ">> }

Medianoche == PyDatetime(<<"2", "0", "2", "4", "-", "0", "1", "-", "1", "5">>, 0, 0, 0, 0)

MedioDia == PyDatetime(<<"2", "0", "2", "4", "-", "0", "1", "-", "1", "5">>, 12, 30, 0, 0)

ParametroCatalogo(nombre, modo, tipo) ==
    [nombre |-> nombre, modo |-> modo, tipo |-> tipo, max_length |-> PyNone]

\* the text {"a":1}
ObjetoJson == <<"{", "\"", "a", "\"", ":", "1", "}">>

MetadatosRutina ==
    { <<>>,
      <<ParametroCatalogo(<<"a">>, "IN", <<"i", "n", "t", "e", "g", "e", "r">>),
        ParametroCatalogo(<<"b">>, "OUT", <<"i", "n", "t", "e", "g", "e", "r">>),
        ParametroCatalogo(<<"c">>, "INOUT", <<"i", "n", "t", "e", "g", "e", "r">>)>>,
      <<ParametroCatalogo(<<"d">>, "IN", <<"d", "a", "t", "e">>)>>,
      <<ParametroCatalogo(<<"d">>, "IN", <<"d", "a", "t", "e", "t", "i", "m", "e">>)>>,
      <<ParametroCatalogo(<<"d">>, "IN", <<"d", "a", "t", "e">>),
        ParametroCatalogo(<<"a">>, "IN", <<"i", "n", "t">>)>>,
      <<ParametroCatalogo(<<"a">>, "IN", <<"n", "v", "a", "r", "c", "h", "a", "r">>)>>,
      <<ParametroCatalogo(<<"d", "e", "t", "a", "l", "l", "e", "s">>, "IN", <<"c", "h", "a", "r", "a", "c", "t", "e", "r", " ", "v", "a", "r", "y", "i", "n", "g">>)>>,
      <<ParametroCatalogo(<<"d", "e", "t", "a", "l", "l", "e", "s">>, "IN", <<"j", "s", "o", "n">>)>>,
      <<[ParametroCatalogo(<<"d", "e", "t", "a", "l", "l", "e", "s">>, "IN", <<"n", "v", "a", "r", "c", "h", "a", "r">>) EXCEPT !.max_length = PyInt(-1)]>> }

ParametrosRutina ==
    { PyNone,
      PyDict(<<[k |-> <<"a">>, v |-> PyInt(1)], [k |-> <<"c">>, v |-> PyInt(3)]>>),
      PyDict(<<[k |-> <<"@", "c">>, v |-> PyInt(3)], [k |-> <<"@", "a">>, v |-> PyInt(1)]>>),
      PyDict(<<[k |-> <<"a">>, v |-> PyInt(1)], [k |-> <<"b">>, v |-> PyInt(2)],
               [k |-> <<"c">>, v |-> PyInt(3)]>>),
      PyDict(<<[k |-> <<"d">>, v |-> Medianoche]>>),
      PyDict(<<[k |-> <<"d">>, v |-> MedioDia]>>),
      PyDict(<<[k |-> <<"D">>, v |-> Medianoche], [k |-> <<"a">>, v |-> PyStr(<<"x">>)]>>),
      PyDict(<<[k |-> <<"d", "e", "t", "a", "l", "l", "e", "s">>, v |-> PyStr(ObjetoJson)]>>),
      PyDict(<<[k |-> <<"d", "e", "t", "a", "l", "l", "e", "s">>, v |-> PyStr(<<"h", "e", "l", "l", "o">>)]>>),
      PyDict(<<[k |-> <<"a">>, v |-> PyStr(<<" ", "[", "1", "]">>)]>>) }

TiposDeRutina == { "FUNCTION", "PROCEDURE", "None" }

RetornosRutina == { [tipo |-> "ok", n |-> 0], [tipo |-> "ok", n |-> 1], Lanza("DBError") }

EjecutarProcedimientoAlmacenado ==
    \E nombre_sp \in NombresRutina, parametros \in ParametrosRutina,
       tipo_rutina \in TiposDeRutina, metadatos \in MetadatosRutina,
       retorno \in RetornosRutina :
        ResponderRepositorio(
            [op |-> "rutina", nombre_sp |-> nombre_sp, parametros |-> parametros,
             tipo_rutina |-> tipo_rutina, metadatos |-> metadatos, retorno |-> retorno],
            RepositorioConsultas_ejecutar_procedimiento(motor, nombre_sp, parametros,
                                                        tipo_rutina, metadatos, retorno))

InitRutinas ==
    /\ tablas_prohibidas = <<>>
    /\ motor \in Motores
    /\ peticion = PeticionNinguna
    /\ resultado = ResultadoNinguno
    /\ llamadas = <<>>
    /\ sentencias = <<>>

NextRutinas == EjecutarProcedimientoAlmacenado

SpecRutinas == InitRutinas /\ [][NextRutinas]_vars

-----------------------------------------------------------------------------
(* Claims about routine execution *)

\* a routine call was sent to the engine
RutinaEnviada == peticion.op = "rutina" /\ sentencias # <<>>

\* the value the caller supplied for a catalog parameter: the last entry of
\* the map whose name, without its @ and in lower case, is the parameter's
TieneSuministrado(items, nombre) ==
    \E i \in 1..Len(items) : Lower(SinArroba(items[i].k)) = Lower(nombre)

Suministrado(items, nombre) ==
    items[CHOOSE i \in 1..Len(items) :
              /\ Lower(SinArroba(items[i].k)) = Lower(nombre)
              /\ \A j \in (i + 1)..Len(items) : Lower(SinArroba(items[j].k)) # Lower(nombre)].v

ItemsDeLaPeticion == IF peticion.parametros.t = "dict" THEN peticion.parametros.items ELSE <<>>

EsTipoSoloFecha(tipo) == Lower(tipo) = <<"d", "a", "t", "e">>

EsTipoFechaHora(tipo) == Lower(tipo) \in {<<"d", "a", "t", "e", "t", "i", "m", "e">>, <<"t", "i", "m", "e", "s", "t", "a", "m", "p">>, <<"t", "i", "m", "e", "s", "t", "a", "m", "p", " ", "w", "i", "t", "h", "o", "u", "t", " ", "t", "i", "m", "e", " ", "z", "o", "n", "e">>}

EsMedianoche(v) == v.hora = 0 /\ v.minuto = 0 /\ v.segundo = 0

\* C8: a timestamp supplied for a routine parameter is bound as a bare date
\* exactly when its time of day is 00:00:00 and the catalog types the
\* parameter as date-only, and is bound unchanged otherwise, in every engine.
C8_FechaSoloSiMedianocheYTipoFecha ==
    RutinaEnviada =>
        \A i \in 1..Len(peticion.metadatos) :
            LET meta == peticion.metadatos[i]
            IN  ( /\ meta.modo = "IN"
                  /\ EsTipoSoloFecha(meta.tipo) \/ EsTipoFechaHora(meta.tipo)
                  /\ TieneSuministrado(ItemsDeLaPeticion, meta.nombre)
                  /\ Suministrado(ItemsDeLaPeticion, meta.nombre).t = "datetime" )
                => LET v == Suministrado(ItemsDeLaPeticion, meta.nombre)
                       esperado == IF EsMedianoche(v) /\ EsTipoSoloFecha(meta.tipo)
                                   THEN PyDate(v.fecha) ELSE v
                       enlazados == sentencias[1].params
                   IN  /\ \E j \in 1..Len(enlazados) : MismoValor(enlazados[j], esperado)
                       /\ \A j \in 1..Len(enlazados) :
                              enlazados[j].t \in {"date", "datetime"}
                                  => MismoValor(enlazados[j], esperado)

FormasDeSeleccion == { Texto("SELECT * FROM "), Texto("SELECT dbo.") }

FormasDeLlamada == { Texto("CALL "), Texto("EXEC ") }

\* C9: a routine the catalog marks as a function is invoked with a
\* SELECT-style statement, one it marks as a procedure with CALL/EXEC, in
\* every engine.
C9_FormaSegunTipoDeRutina ==
    RutinaEnviada =>
        /\ peticion.tipo_rutina = "FUNCTION" => Head(sentencias[1].sql) \in FormasDeSeleccion
        /\ peticion.tipo_rutina = "PROCEDURE" => Head(sentencias[1].sql) \in FormasDeLlamada

\* the catalog's parameters that take an input, in ordinal order
EntradasDelCatalogo ==
    SelectSeq(peticion.metadatos, LAMBDA meta : meta.modo \in {"IN", "INOUT"})

EsTipoEntero(tipo) == Lower(tipo) \in {<<"i", "n", "t", "e", "g", "e", "r">>, <<"i", "n", "t">>}

\* C10: the argument list of a routine call has one argument for every IN and
\* every INOUT parameter of the catalog, in ordinal order, and none for an
\* OUT-only parameter.
C10_UnArgumentoPorEntrada ==
    RutinaEnviada =>
        /\ Len(sentencias[1].params) = Len(EntradasDelCatalogo)
        /\ \A i \in 1..Len(EntradasDelCatalogo) :
               ( /\ EsTipoEntero(EntradasDelCatalogo[i].tipo)
                 /\ TieneSuministrado(ItemsDeLaPeticion, EntradasDelCatalogo[i].nombre)
                 /\ Suministrado(ItemsDeLaPeticion, EntradasDelCatalogo[i].nombre).t = "int" )
               => MismoValor(sentencias[1].params[i],
                             Suministrado(ItemsDeLaPeticion, EntradasDelCatalogo[i].nombre))

\* the same three statements, engine by engine
C8_EnPostgreSQL == motor = "postgresql" => C8_FechaSoloSiMedianocheYTipoFecha

C8_EnSqlServer == motor = "sqlserver" => C8_FechaSoloSiMedianocheYTipoFecha

C8_EnMysql == motor = "mysql" => C8_FechaSoloSiMedianocheYTipoFecha

C9_EnPostgreSQL == motor = "postgresql" => C9_FormaSegunTipoDeRutina

C9_EnSqlServer == motor = "sqlserver" => C9_FormaSegunTipoDeRutina

C9_EnMysql == motor = "mysql" => C9_FormaSegunTipoDeRutina

C10_EnPostgreSQL == motor = "postgresql" => C10_UnArgumentoPorEntrada

C10_EnSqlServer == motor = "sqlserver" => C10_UnArgumentoPorEntrada

C10_EnMysql == motor = "mysql" => C10_UnArgumentoPorEntrada

-----------------------------------------------------------------------------
(* obtener_esquema_tabla of the three query repositories.                   *)
(*                                                                           *)
(* What the catalog holds is an input: the set of schemas that contain a     *)
(* table of the given name.  `falla` names the step that fails, if any:      *)
(* the provider has no connection string, the driver cannot connect, or the  *)
(* engine rejects the first statement.                                       *)

\* position of a character in the collation order
IndiceCaracter(c) ==
    IF \E i \in 1..Len(Minusculas) : Minusculas[i] = LowerChar(c)
    THEN CHOOSE i \in 1..Len(Minusculas) : Minusculas[i] = LowerChar(c)
    ELSE 0

\* ORDER BY on a text column
RECURSIVE TextoMenor(_, _)
TextoMenor(a, b) ==
    IF a = <<>> THEN b # <<>>
    ELSE IF b = <<>> THEN FALSE
    ELSE IF Head(a) = Head(b) THEN TextoMenor(Tail(a), Tail(b))
    ELSE IndiceCaracter(Head(a)) < IndiceCaracter(Head(b))

\* 'public', 'dbo', and for MySQL/MariaDB the database of the connection string
EsquemaPorDefecto(m, db) ==
    CASE m = "postgresql" -> <<"p", "u", "b", "l", "i", "c">>
      [] m = "sqlserver"  -> <<"d", "b", "o">>
      [] m = "mysql"      -> db

\* `x and x.strip()` / `x` as a condition, for x : str | None
NoVacio(s) == s # NoneStr /\ s # <<>>

\* The rows the second statement can return first.  PostgreSQL and SQL Server
\* order the default schema before the rest and leave the rest unordered;
\* MySQL/MariaDB orders by schema name.
PrimerEsquema(m, esquemas_con_tabla) ==
    IF esquemas_con_tabla = {} THEN { PyNone }
    ELSE IF m = "mysql"
         THEN { PyStr(e) : e \in { x \in esquemas_con_tabla :
                                      \A y \in esquemas_con_tabla : y = x \/ TextoMenor(x, y) } }
    ELSE IF EsquemaPorDefecto(m, <<>>) \in esquemas_con_tabla
         THEN { PyStr(EsquemaPorDefecto(m, <<>>)) }
    ELSE { PyStr(e) : e \in esquemas_con_tabla }

\* the schema probed by the first statement, NoneStr when it is skipped
EsquemaSondeado(m, esquema_predeterminado, db) ==
    IF m = "mysql"
    THEN LET esquema_buscar == IF NoVacio(esquema_predeterminado)
                               THEN esquema_predeterminado ELSE db
         IN  IF NoVacio(esquema_buscar) THEN esquema_buscar ELSE NoneStr
    ELSE IF ~EsBlanco(esquema_predeterminado) THEN esquema_predeterminado ELSE NoneStr

LlamadaDriver(metodo) == [metodo |-> metodo]

\* the set of outcomes of one call: what it returns or raises and the calls
\* it made on the provider and the driver
RepositorioConsultas_obtener_esquema_tabla(m, nombre_tabla, esquema_predeterminado, db, esquemas_con_tabla, falla) ==
    LET sondeado == EsquemaSondeado(m, esquema_predeterminado, db)
        abrir == <<LlamadaDriver("obtener_cadena_conexion"), LlamadaDriver("connect")>>
    IN  IF m = "mysql" /\ EsBlanco(nombre_tabla)
        THEN { [resultado |-> Lanza("ValueError"), llamadas |-> <<>>] }
        ELSE IF falla = "cadena"
        THEN { [resultado |-> Lanza("ValueError"),
                llamadas |-> <<LlamadaDriver("obtener_cadena_conexion")>>] }
        ELSE IF falla = "conectar"
        THEN { [resultado |-> Lanza("DBError"), llamadas |-> abrir] }
        ELSE IF falla = "consulta"
        THEN { [resultado |-> Lanza("DBError"),
                llamadas |-> abrir \o <<LlamadaDriver("execute"), LlamadaDriver("close")>>] }
        ELSE IF sondeado # NoneStr /\ sondeado \in esquemas_con_tabla
        THEN { [resultado |-> Retorna(PyStr(sondeado)),
                llamadas |-> abrir \o <<LlamadaDriver("execute"), LlamadaDriver("close")>>] }
        ELSE { [resultado |-> Retorna(e),
                llamadas |-> abrir
                             \o (IF sondeado # NoneStr THEN <<LlamadaDriver("execute")>> ELSE <<>>)
                             \o <<LlamadaDriver("execute"), LlamadaDriver("close")>>]
               : e \in PrimerEsquema(m, esquemas_con_tabla) }

BaseDeDatosMysql == <<"t", "i", "e", "n", "d", "a">>

\* schemas of the server other than the default one
OtrosEsquemas == { <<"a", "l", "m", "a", "c", "e", "n">>, <<"v", "e", "n", "t", "a", "s">> }

EsquemasDelServidor(m) == OtrosEsquemas \cup { EsquemaPorDefecto(m, BaseDeDatosMysql) }

EsquemasPredeterminados(m) ==
    { NoneStr, <<>>, <<" ">> } \cup OtrosEsquemas \cup { EsquemaPorDefecto(m, BaseDeDatosMysql) }

BasesDeDatos == { BaseDeDatosMysql, <<>> }

Fallas == { "ninguna", "cadena", "conectar", "consulta" }

\* one call of a query-repository operation that reports its driver calls
ResponderConLlamadas(p, r) ==
    /\ peticion = PeticionNinguna
    /\ peticion' = p
    /\ resultado' = r.resultado
    /\ llamadas' = r.llamadas
    /\ UNCHANGED <<tablas_prohibidas, motor, sentencias>>

ObtenerEsquemaTabla ==
    \E nombre_tabla \in { <<"t">>, <<" ">> },
       esquema_predeterminado \in EsquemasPredeterminados(motor),
       db \in BasesDeDatos,
       esquemas_con_tabla \in SUBSET EsquemasDelServidor(motor),
       falla \in Fallas :
        \E r \in RepositorioConsultas_obtener_esquema_tabla(
                     motor, nombre_tabla, esquema_predeterminado, db, esquemas_con_tabla, falla) :
            ResponderConLlamadas(
                [op |-> "obtener_esquema_tabla", nombre_tabla |-> nombre_tabla,
                 esquema_predeterminado |-> esquema_predeterminado, db |-> db,
                 esquemas_con_tabla |-> esquemas_con_tabla, falla |-> falla], r)

InitEsquema == InitRutinas

NextEsquema == ObtenerEsquemaTabla

SpecEsquema == InitEsquema /\ [][NextEsquema]_vars

\* the call resolved a schema: it returned, for a table name that is not blank
\* and, in MySQL/MariaDB, a connection string that names a database
EsquemaResuelto ==
    /\ peticion.op = "obtener_esquema_tabla"
    /\ resultado.tipo = "ok"
    /\ ~EsBlanco(peticion.nombre_tabla)
    /\ motor = "mysql" => peticion.db # <<>>

HayPista == ~EsBlanco(peticion.esquema_predeterminado)

\* C11: the schema returned is the hint when the table is there, else the
\* engine's default schema when the table is there, else some other schema
\* that has the table, else None.
C11_OrdenDeResolucion ==
    EsquemaResuelto =>
        LET con == peticion.esquemas_con_tabla
            defecto == EsquemaPorDefecto(motor, peticion.db)
        IN  IF HayPista /\ peticion.esquema_predeterminado \in con
            THEN resultado.valor = PyStr(peticion.esquema_predeterminado)
            ELSE IF defecto \in con THEN resultado.valor = PyStr(defecto)
            ELSE IF con # {} THEN resultado.valor.t = "str" /\ resultado.valor.v \in con
            ELSE resultado.valor = PyNone

\* the part of C11 about calls with no hint
C11_SinPista ==
    (EsquemaResuelto /\ peticion.esquema_predeterminado = NoneStr) => C11_OrdenDeResolucion

C11_EnPostgreSQL == motor = "postgresql" => C11_OrdenDeResolucion

C11_EnSqlServer == motor = "sqlserver" => C11_OrdenDeResolucion

C11_EnMysql == motor = "mysql" => C11_OrdenDeResolucion

-----------------------------------------------------------------------------
(* Claims about the routine-parameter converters *)

\* the call has one catalog parameter, an input, and the caller's map has one
\* entry, a text for that parameter; the call was sent
UnTextoParaUnParametro ==
    /\ RutinaEnviada
    /\ Len(peticion.metadatos) = 1
    /\ peticion.metadatos[1].modo = "IN"
    /\ Len(ItemsDeLaPeticion) = 1
    /\ TieneSuministrado(ItemsDeLaPeticion, peticion.metadatos[1].nombre)
    /\ ItemsDeLaPeticion[1].v.t = "str"

\* json and jsonb in PostgreSQL, nvarchar(max) in SQL Server
EsTipoJson(meta) ==
    \/ Lower(meta.tipo) \in {<<"j", "s", "o", "n">>, <<"j", "s", "o", "n", "b">>}
    \/ Lower(meta.tipo) = <<"n", "v", "a", "r", "c", "h", "a", "r">> /\ meta.max_length = PyInt(-1)

EsTipoTexto(tipo) ==
    Lower(tipo) \in {<<"c", "h", "a", "r", "a", "c", "t", "e", "r", " ", "v", "a", "r", "y", "i", "n", "g">>, <<"v", "a", "r", "c", "h", "a", "r">>, <<"t", "e", "x", "t">>, <<"n", "v", "a", "r", "c", "h", "a", "r">>, <<"c", "h", "a", "r">>, <<"n", "c", "h", "a", "r">>}

\* the trimmed text starts with { or [
EmpiezaComoJson(texto) ==
    StartsWith(Strip(texto), <<"{">>) \/ StartsWith(Strip(texto), <<"[">>)

\* the detection an engine's converter makes; MySQL/MariaDB has none
DetectadoComoJson(m, meta, nombre_param, valor) ==
    CASE m = "postgresql" -> _es_json_postgresql(meta.tipo, nombre_param, valor)
      [] m = "sqlserver"  -> _es_json_sqlserver(meta.tipo, meta.max_length, nombre_param, valor)
      [] m = "mysql"      -> EmpiezaComoJson(valor.v)

\* the conversion an engine's converter makes
ConversionDeRutina(m, meta, nombre_param, valor) ==
    CASE m = "postgresql" -> _convertir_valor_segun_tipo_postgresql(valor, meta.tipo, nombre_param)
      [] m = "sqlserver"  -> _convertir_valor_segun_tipo_sqlserver(
                                 valor, meta.tipo, meta.max_length, nombre_param)
      [] m = "mysql"      -> Retorna(_convertir_valor_mysql(valor))

NombresDeParametro == { <<"d", "e", "t", "a", "l", "l", "e", "s">>, <<"a">>, <<"r", "o", "l", "e", "s">>, <<"j", "s", "o", "n", "_", "d", "a", "t", "a">>, <<"n", "o", "m", "b", "r", "e">> }

-----------------------------------------------------------------------------
(* The connection life cycle of a repository call, step by step.             *)
(*                                                                           *)
(* A call validates its input, asks the provider for the connection string,  *)
(* connects, sends its statements, reads the results and leaves the scope    *)
(* of the connection (try/finally, async with).  The read repositories keep  *)
(* one SQLAlchemy engine per repository object and open one scope per column *)
(* type they detect before the scope of the main statement.  Every call on   *)
(* the provider or the driver can fail.                                      *)

OperacionesConsultas ==
    { "ejecutar_procedimiento_almacenado_con_dictionary",
      "ejecutar_consulta_parametrizada_con_dictionary",
      "validar_consulta_con_dictionary",
      "obtener_esquema_tabla",
      "obtener_estructura_tabla" }

OperacionesLectura == { "obtener_filas", "obtener_por_clave", "crear", "actualizar", "eliminar" }

\* operations that look up column types before their statement
OperacionesConDeteccion == { "obtener_por_clave", "crear", "actualizar", "eliminar" }

\* what can be blank or empty in the input of an operation
Entradas(op) ==
    CASE op = "ejecutar_procedimiento_almacenado_con_dictionary" -> { "valida", "rutina_en_blanco" }
      [] op \in { "ejecutar_consulta_parametrizada_con_dictionary",
                  "validar_consulta_con_dictionary" } -> { "valida", "consulta_en_blanco" }
      [] op \in { "crear", "actualizar" } -> { "valida", "tabla_en_blanco", "datos_vacios" }
      [] OTHER -> { "valida", "tabla_en_blanco" }

\* the operation tests that input before anything else
ValidaAlEntrar(m, op) ==
    \/ op \in OperacionesLectura
    \/ op = "ejecutar_procedimiento_almacenado_con_dictionary"
    \/ m = "mysql"

SinError == [tipo |-> "ninguno", mensaje |-> <<>>]

ErrorCon(tipo, mensaje) == [tipo |-> tipo, mensaje |-> mensaje]

\* (es_valida, mensaje_error)
Tupla(es_valida, mensaje) == [t |-> "tuple", es_valida |-> es_valida, mensaje |-> mensaje]

\* the message SQL Server's validation gives for an error text
MensajeSqlServer(error_str) ==
    IF Contiene(error_str, <<"1", "0", "2">>)
    THEN <<"E", "r", "r", "o", "r", " ", "d", "e", " ", "s", "i", "n", "t", "a", "x", "i", "s", " ", "S", "Q", "L", ":", " ", "r", "e", "v", "i", "s", "e", " ", "l", "a", " ", "e", "s", "t", "r", "u", "c", "t", "u", "r", "a", " ", "d", "e", " ", "l", "a", " ", "c", "o", "n", "s", "u", "l", "t", "a">>
    ELSE IF Contiene(error_str, <<"2", "0", "7">>)
    THEN <<"N", "o", "m", "b", "r", "e", " ", "d", "e", " ", "c", "o", "l", "u", "m", "n", "a", " ", "i", "n", "v", "a", "l", "i", "d", "o", ":", " ", "v", "e", "r", "i", "f", "i", "q", "u", "e", " ", "q", "u", "e", " ", "l", "a", "s", " ", "c", "o", "l", "u", "m", "n", "a", "s", " ", "e", "x", "i", "s", "t", "a", "n">>
    ELSE IF Contiene(error_str, <<"2", "0", "8">>)
    THEN <<"O", "b", "j", "e", "t", "o", " ", "n", "o", " ", "v", "a", "l", "i", "d", "o", ":", " ", "t", "a", "b", "l", "a", " ", "o", " ", "v", "i", "s", "t", "a", " ", "n", "o", " ", "e", "x", "i", "s", "t", "e", " ", "e", "n", " ", "l", "a", " ", "b", "a", "s", "e", " ", "d", "e", " ", "d", "a", "t", "o", "s">>
    ELSE IF Contiene(error_str, <<"1", "5", "6">>)
    THEN <<"P", "a", "l", "a", "b", "r", "a", " ", "c", "l", "a", "v", "e", " ", "S", "Q", "L", " ", "i", "n", "c", "o", "r", "r", "e", "c", "t", "a", " ", "o", " ", "e", "n", " ", "p", "o", "s", "i", "c", "i", "o", "n", " ", "i", "n", "c", "o", "r", "r", "e", "c", "t", "a">>
    ELSE IF Contiene(error_str, <<"1", "7", "0">>)
    THEN <<"E", "r", "r", "o", "r", " ", "d", "e", " ", "s", "i", "n", "t", "a", "x", "i", "s", " ", "c", "e", "r", "c", "a", " ", "d", "e", " ", "p", "a", "l", "a", "b", "r", "a", " ", "r", "e", "s", "e", "r", "v", "a", "d", "a">>
    ELSE <<"E", "r", "r", "o", "r", " ", "d", "e", " ", "v", "a", "l", "i", "d", "a", "c", "i", "o", "n", " ", "S", "Q", "L", " ", "S", "e", "r", "v", "e", "r", ":", " ">> \o error_str

\* every error raised to the caller
AlPropagarSiempre(m, op, error) ==
    IF op \in OperacionesLectura THEN Lanza("RuntimeError") ELSE Lanza(error.tipo)

\* what the call does with an error that leaves every connection scope
AlPropagar(m, op, error) ==
    IF op = "validar_consulta_con_dictionary"
    THEN Retorna(Tupla(FALSE, PyStr(IF m = "sqlserver" THEN MensajeSqlServer(error.mensaje)
                                    ELSE error.mensaje)))
    ELSE IF op \in OperacionesLectura THEN Lanza("RuntimeError")
    ELSE Lanza(error.tipo)

\* what the call returns when nothing failed
AlRetornar(op) ==
    IF op = "validar_consulta_con_dictionary" THEN Retorna(Tupla(TRUE, PyNone))
    ELSE Retorna(PyNone)

MaxSentencias == 2

MaxDetecciones == 1

MensajesDeError == { <<>>, <<"e", "r", "r", "o", "r", " ", "1", "0", "2">>, <<"t", "i", "m", "e", "o", "u", "t">> }

Invocar ==
    /\ peticion = PeticionNinguna
    /\ \E op \in OperacionesConsultas \cup OperacionesLectura :
       \E entrada \in Entradas(op), engine_creado \in BOOLEAN :
       \E detecciones \in 0..MaxDetecciones, n \in 0..MaxSentencias :
           /\ engine_creado => op \in OperacionesLectura
           /\ detecciones > 0 => op \in OperacionesConDeteccion
           /\ op \in OperacionesLectura => n = 1
           /\ peticion' = [op |-> op, entrada |-> entrada, fase |-> "validar",
                           abiertas |-> 0, engine_creado |-> engine_creado,
                           detecciones |-> detecciones, por_ejecutar |-> n,
                           error |-> SinError]
    /\ UNCHANGED <<tablas_prohibidas, motor, resultado, llamadas, sentencias>>

EnFase(fase) == peticion # PeticionNinguna /\ "fase" \in DOMAIN peticion /\ peticion.fase = fase

\* the call ends: it returns or raises
Terminar(p, r) ==
    /\ peticion' = [p EXCEPT !.fase = "terminada"]
    /\ resultado' = r

\* an error outside every connection scope: a detection swallows it and the
\* call goes on with the next scope, otherwise the call ends with it
FueraDeAlcance(p, error) ==
    IF p.detecciones > 0
    THEN /\ peticion' = [p EXCEPT !.detecciones = @ - 1, !.fase = "cadena", !.error = SinError]
         /\ UNCHANGED resultado
    ELSE Terminar([p EXCEPT !.error = error], AlPropagar(motor, p.op, error))

ValidarEntrada ==
    /\ EnFase("validar")
    /\ IF peticion.entrada # "valida" /\ ValidaAlEntrar(motor, peticion.op)
       THEN Terminar(peticion,
                     IF peticion.op = "validar_consulta_con_dictionary"
                     THEN Retorna(Tupla(FALSE, PyStr(<<"L", "a", " ", "c", "o", "n", "s", "u", "l", "t", "a", " ", "S", "Q", "L", " ", "e", "s", "t", "a", " ", "v", "a", "c", "i", "a", ".">>)))
                     ELSE Lanza("ValueError"))
       ELSE /\ peticion' = [peticion EXCEPT !.fase = "cadena"]
            /\ UNCHANGED resultado
    /\ UNCHANGED <<tablas_prohibidas, motor, llamadas, sentencias>>

\* self._proveedor_conexion.obtener_cadena_conexion(), kept in the engine by
\* the read repositories
PedirCadena ==
    /\ EnFase("cadena")
    /\ IF peticion.engine_creado
       THEN /\ peticion' = [peticion EXCEPT !.fase = "conectar"]
            /\ UNCHANGED <<resultado, llamadas>>
       ELSE /\ llamadas' = Append(llamadas, LlamadaDriver("obtener_cadena_conexion"))
            /\ \/ /\ peticion' = [peticion EXCEPT
                                     !.fase = "conectar",
                                     !.engine_creado = peticion.op \in OperacionesLectura]
                  /\ UNCHANGED resultado
               \/ \E mensaje \in MensajesDeError :
                      FueraDeAlcance(peticion, ErrorCon("ValueError", mensaje))
    /\ UNCHANGED <<tablas_prohibidas, motor, sentencias>>

\* asyncpg.connect, aioodbc.connect, aiomysql.connect, engine.connect / begin
Conectar ==
    /\ EnFase("conectar")
    /\ llamadas' = Append(llamadas, LlamadaDriver("connect"))
    /\ \/ /\ peticion' = [peticion EXCEPT !.fase = "ejecutar", !.abiertas = @ + 1]
          /\ UNCHANGED resultado
       \/ \E mensaje \in MensajesDeError :
              FueraDeAlcance(peticion, ErrorCon("DBError", mensaje))
    /\ UNCHANGED <<tablas_prohibidas, motor, sentencias>>

\* statements of the scope: one for a detection, por_ejecutar for the main one
EjecutarSentencia ==
    /\ EnFase("ejecutar")
    /\ LET quedan == IF peticion.detecciones > 0 THEN 1 ELSE peticion.por_ejecutar
       IN  IF quedan = 0
           THEN /\ peticion' = [peticion EXCEPT !.fase = "leer"]
                /\ UNCHANGED llamadas
           ELSE /\ llamadas' = Append(llamadas, LlamadaDriver("execute"))
                /\ \/ peticion' = [peticion EXCEPT
                                      !.fase = IF quedan = 1 THEN "leer" ELSE "ejecutar",
                                      !.por_ejecutar = IF peticion.detecciones > 0
                                                       THEN @ ELSE @ - 1]
                   \/ \E mensaje \in MensajesDeError :
                          peticion' = [peticion EXCEPT
                                          !.fase = "cerrar",
                                          !.error = ErrorCon("DBError", mensaje)]
    /\ UNCHANGED <<tablas_prohibidas, motor, resultado, sentencias>>

\* fetchall / fetchone / rowcount; the SQL Server routine call swallows an
\* error of this step
LeerResultados ==
    /\ EnFase("leer")
    /\ llamadas' = Append(llamadas, LlamadaDriver("fetch"))
    /\ \/ peticion' = [peticion EXCEPT !.fase = "cerrar"]
       \/ \E mensaje \in MensajesDeError :
              peticion' = [peticion EXCEPT
                              !.fase = "cerrar",
                              !.error = IF /\ motor = "sqlserver"
                                           /\ peticion.op = "ejecutar_procedimiento_almacenado_con_dictionary"
                                        THEN SinError
                                        ELSE ErrorCon("DBError", mensaje)]
    /\ UNCHANGED <<tablas_prohibidas, motor, resultado, sentencias>>

\* the connection without its release
SinCerrar(p) == p

\* finally: conexion.close(); the exit of async with
Cerrar(p) == [p EXCEPT !.abiertas = @ - 1]

\* leaving the scope of the connection, with or without an error
SalirDelAlcance ==
    /\ EnFase("cerrar")
    /\ llamadas' = Append(llamadas, LlamadaDriver("close"))
    /\ LET p == Cerrar(peticion)
       IN  IF p.detecciones > 0
           THEN /\ peticion' = [p EXCEPT !.detecciones = @ - 1, !.fase = "cadena",
                                         !.error = SinError]
                /\ UNCHANGED resultado
           ELSE IF p.error # SinError
           THEN Terminar(p, AlPropagar(motor, p.op, p.error))
           ELSE Terminar(p, AlRetornar(p.op))
    /\ UNCHANGED <<tablas_prohibidas, motor, sentencias>>

InitConexiones == InitRutinas

NextConexiones ==
    \/ Invocar
    \/ ValidarEntrada
    \/ PedirCadena
    \/ Conectar
    \/ EjecutarSentencia
    \/ LeerResultados
    \/ SalirDelAlcance

SpecConexiones == InitConexiones /\ [][NextConexiones]_vars

-----------------------------------------------------------------------------
(* Claims about the connection life cycle *)

LlamadasA(metodo) == Cuenta(llamadas, LlamadaDriver(metodo))

\* C13: when a repository call has ended, by return or by raise, whatever
\* step failed, no connection it acquired is still open.
C13_ConexionLiberada == EnFase("terminada") => peticion.abiertas = 0

\* a call ended with the engine's error after it had connected, and closed
C13_Witness ==
    /\ EnFase("terminada")
    /\ resultado = Lanza("DBError")
    /\ LlamadasA("execute") > 0
    /\ LlamadasA("close") > 0

EntradaEnBlanco ==
    /\ peticion # PeticionNinguna
    /\ "entrada" \in DOMAIN peticion
    /\ peticion.entrada \in { "tabla_en_blanco", "datos_vacios", "rutina_en_blanco" }

\* C14: a call given a blank table name, an empty data map or a blank routine
\* name asks for no connection string, opens no connection and sends no
\* statement, and ends with ValueError.
C14_ValidacionAntesDeConectar ==
    EntradaEnBlanco =>
        /\ llamadas = <<>>
        /\ EnFase("terminada") => resultado = Lanza("ValueError")

C14_EnLectura ==
    (peticion # PeticionNinguna /\ peticion.op \in OperacionesLectura)
        => C14_ValidacionAntesDeConectar

C14_EnRutinas ==
    (peticion # PeticionNinguna
     /\ peticion.op = "ejecutar_procedimiento_almacenado_con_dictionary")
        => C14_ValidacionAntesDeConectar

C14_EnMysql == motor = "mysql" => C14_ValidacionAntesDeConectar

ValidacionTerminada ==
    EnFase("terminada") /\ peticion.op = "validar_consulta_con_dictionary"

\* C15: validar_consulta_con_dictionary never raises; when any step failed
\* it returns (False, mensaje) with mensaje a text.
C15_ValidacionNoLanza ==
    ValidacionTerminada =>
        /\ resultado.tipo = "ok"
        /\ resultado.valor.t = "tuple"
        /\ (peticion.error # SinError \/ ~resultado.valor.es_valida)
               => /\ ~resultado.valor.es_valida
                  /\ resultado.valor.mensaje.t = "str"

\* a validation whose statement the engine rejected
C15_Witness ==
    /\ ValidacionTerminada
    /\ peticion.error.tipo = "DBError"
    /\ LlamadasA("execute") > 0
    /\ resultado.tipo = "ok"
    /\ ~resultado.valor.es_valida

-----------------------------------------------------------------------------
(* Update and delete through the three layers: the table repository of the *)
(* engine, ServicioCrud over it, and the endpoints of                      *)
(* controllers/entidades_controller.py over the service.                    *)

\* the service calling the repository it was built with: the repository
\* receives the arguments of the service's call and its outcome is the
\* service's outcome
ServicioSobreLectura_actualizar(m, nombre_tabla, nombre_clave, valor_clave, datos, esquema, campos_encriptar, sales, catalogo, retorno) ==
    LET previa == ServicioCrud_actualizar(nombre_tabla, nombre_clave, valor_clave, datos,
                                          esquema, campos_encriptar, ResultadoNinguno)
        ll == previa.llamadas[1]
        repositorio == Repositorio_actualizar(m, ll.nombre_tabla, ll.nombre_clave, ll.valor_clave,
                                              ll.datos, ll.esquema, ll.campos_encriptar,
                                              sales, catalogo, retorno)
    IN  IF previa.llamadas = <<>>
        THEN [resultado |-> previa.resultado, sentencias |-> <<>>]
        ELSE [resultado |-> ServicioCrud_actualizar(nombre_tabla, nombre_clave, valor_clave,
                                                    datos, esquema, campos_encriptar,
                                                    repositorio.resultado).resultado,
              sentencias |-> repositorio.sentencias]

ServicioSobreLectura_eliminar(m, nombre_tabla, nombre_clave, valor_clave, esquema, catalogo, retorno) ==
    LET previa == ServicioCrud_eliminar(nombre_tabla, nombre_clave, valor_clave, esquema,
                                        ResultadoNinguno)
        ll == previa.llamadas[1]
        repositorio == Repositorio_eliminar(m, ll.nombre_tabla, ll.nombre_clave, ll.valor_clave,
                                            ll.esquema, catalogo, retorno)
    IN  IF previa.llamadas = <<>>
        THEN [resultado |-> previa.resultado, sentencias |-> <<>>]
        ELSE [resultado |-> ServicioCrud_eliminar(nombre_tabla, nombre_clave, valor_clave,
                                                  esquema, repositorio.resultado).resultado,
              sentencias |-> repositorio.sentencias]

\* the except clauses of both endpoints: HTTPException re-raised,
\* PermissionError 403, ValueError 400, anything else 500
CodigoDeExcepcion(excepcion) ==
    CASE excepcion = "PermissionError" -> 403
      [] excepcion = "ValueError"      -> 400
      [] OTHER                         -> 500

\* filas > 0: the 200 body; otherwise HTTPException(404)
RespuestaSegunFilas(servicio) ==
    IF servicio.resultado.tipo = "ok"
    THEN (IF servicio.resultado.valor > 0
          THEN Retorna([estado |-> 200, filas |-> servicio.resultado.valor])
          ELSE HTTPException(404))
    ELSE HTTPException(CodigoDeExcepcion(servicio.resultado.tipo))

\* PUT /api/{tabla}/{nombre_clave}/{valor_clave}
Endpoint_actualizar(m, tabla, nombre_clave, valor_clave, datos_entidad, esquema, campos_encriptar, sales, catalogo, retorno) ==
    LET servicio == ServicioSobreLectura_actualizar(m, tabla, nombre_clave, valor_clave,
                                                    datos_entidad, esquema, campos_encriptar,
                                                    sales, catalogo, retorno)
    IN  IF datos_entidad = <<>>
        THEN [resultado |-> HTTPException(400), sentencias |-> <<>>]
        ELSE [resultado |-> RespuestaSegunFilas(servicio), sentencias |-> servicio.sentencias]

\* DELETE /api/{tabla}/{nombre_clave}/{valor_clave}
Endpoint_eliminar(m, tabla, nombre_clave, valor_clave, esquema, catalogo, retorno) ==
    LET servicio == ServicioSobreLectura_eliminar(m, tabla, nombre_clave, valor_clave,
                                                  esquema, catalogo, retorno)
    IN  [resultado |-> RespuestaSegunFilas(servicio), sentencias |-> servicio.sentencias]

Capas == {"repositorio", "servicio", "endpoint"}

TablasEntidades == { <<"u", "s", "u", "a", "r", "i", "o">>, <<"a", "u", "d", "i", "t", "o", "r", "i", "a">> }

ProhibidasEntidades == { <<>>, <<"a", "u", "d", "i", "t", "o", "r", "i", "a">> }

ValoresClaveEntidades == { <<"7">>, <<" ", "7", " ">>, <<"N", "O", "P", "E">> }

DatosEntidades == { <<>>, <<[k |-> C_email, v |-> PyStr(<<"a", "@", "b">>)]>> }

CatalogosEntidades ==
    { Catalogo("None", "None", "None"),
      Catalogo("integer", "None", "None"),
      Catalogo("int", "None", "None"),
      Catalogo("numeric", "None", "None"),
      Catalogo("character varying", "None", "None") }

\* rows the statement affects when the engine runs it, or the engine's error
RetornosDeFilas == { Retorna(0), Retorna(1), Lanza("DBAPIError") }

SalesEntidades == <<"s1", "s2">>

ActualizarPorCapas ==
    \E capa \in Capas, tabla \in TablasEntidades, valor_clave \in ValoresClaveEntidades,
       datos \in DatosEntidades, catalogo \in CatalogosEntidades,
       retorno \in RetornosDeFilas :
        ResponderRepositorio(
            [op |-> "actualizar", capa |-> capa, nombre_tabla |-> tabla,
             nombre_clave |-> C_id, valor_clave |-> valor_clave, datos |-> datos,
             catalogo |-> catalogo, retorno |-> retorno],
            CASE capa = "repositorio" ->
                     Repositorio_actualizar(motor, tabla, C_id, valor_clave, datos, NoneStr,
                                            NoneStr, SalesEntidades, catalogo, retorno)
              [] capa = "servicio" ->
                     ServicioSobreLectura_actualizar(motor, tabla, C_id, valor_clave, datos,
                                                     NoneStr, NoneStr, SalesEntidades,
                                                     catalogo, retorno)
              [] capa = "endpoint" ->
                     Endpoint_actualizar(motor, tabla, C_id, valor_clave, datos, NoneStr,
                                         NoneStr, SalesEntidades, catalogo, retorno))

EliminarPorCapas ==
    \E capa \in Capas, tabla \in TablasEntidades, valor_clave \in ValoresClaveEntidades,
       catalogo \in CatalogosEntidades, retorno \in RetornosDeFilas :
        ResponderRepositorio(
            [op |-> "eliminar", capa |-> capa, nombre_tabla |-> tabla,
             nombre_clave |-> C_id, valor_clave |-> valor_clave,
             datos |-> <<[k |-> C_email, v |-> PyStr(<<"a", "@", "b">>)]>>,
             catalogo |-> catalogo, retorno |-> retorno],
            CASE capa = "repositorio" ->
                     Repositorio_eliminar(motor, tabla, C_id, valor_clave, NoneStr,
                                          catalogo, retorno)
              [] capa = "servicio" ->
                     ServicioSobreLectura_eliminar(motor, tabla, C_id, valor_clave, NoneStr,
                                                   catalogo, retorno)
              [] capa = "endpoint" ->
                     Endpoint_eliminar(motor, tabla, C_id, valor_clave, NoneStr,
                                       catalogo, retorno))

InitEntidades ==
    /\ tablas_prohibidas \in ProhibidasEntidades
    /\ motor \in Motores
    /\ peticion = PeticionNinguna
    /\ resultado = ResultadoNinguno
    /\ llamadas = <<>>
    /\ sentencias = <<>>

NextEntidades ==
    \/ ActualizarPorCapas
    \/ EliminarPorCapas

SpecEntidades == InitEntidades /\ [][NextEntidades]_vars

\* the request is a well-formed update or delete of a permitted table whose
\* key value is held by no row: the engine, given the statement, reports 0
NingunaFilaCoincide ==
    /\ peticion.op \in {"actualizar", "eliminar"}
    /\ peticion.datos # <<>>
    /\ es_tabla_permitida(peticion.nombre_tabla)
    /\ peticion.retorno = Retorna(0)

RespuestaSinCoincidencia ==
    IF peticion.capa = "endpoint" THEN resultado = HTTPException(404)
    ELSE resultado = Retorna(0)

\* C16: an update or delete whose key matches no row returns 0 from the
\* repository and from the service without an error, and only the endpoint
\* turns the zero into not-found
C16_CeroSinError ==
    (peticion # PeticionNinguna /\ NingunaFilaCoincide) => RespuestaSinCoincidencia

\* C16 where the statement reached the engine
C16_ConSentenciaEjecutada ==
    (peticion # PeticionNinguna /\ NingunaFilaCoincide /\ sentencias # <<>>)
        => RespuestaSinCoincidencia

\* C16 on MySQL/MariaDB, whose repository binds the key value as received
C16_EnMysql ==
    (peticion # PeticionNinguna /\ NingunaFilaCoincide /\ motor = "mysql")
        => RespuestaSinCoincidencia

-----------------------------------------------------------------------------
(* Values on their way out and back: _serializar_valor on a row read by a  *)
(* table repository, and the conversion crear/actualizar apply to a value   *)
(* of the request body with the column's catalog type.                      *)

SeisDigitos(n) ==
    DosDigitos(n \div 10000) \o DosDigitos((n \div 100) % 100) \o DosDigitos(n % 100)

HoraIso(v) ==
    DosDigitos(v.hora) \o <<":">> \o DosDigitos(v.minuto) \o <<":">> \o DosDigitos(v.segundo)

isoformat_solo_fecha(v) ==
    CASE v.t = "date"     -> v.fecha
      [] v.t = "datetime" -> v.fecha
      [] v.t = "time"     -> HoraIso(v)

\* date.isoformat(), datetime.isoformat(), time.isoformat()
isoformat(v) ==
    CASE v.t = "date"     -> v.fecha
      [] v.t = "datetime" -> v.fecha \o <<"T">> \o HoraIso(v)
                             \o (IF v.micro # 0 THEN <<".">> \o SeisDigitos(v.micro) ELSE <<>>)
      [] v.t = "time"     -> HoraIso(v)

\* str(uuid): 8-4-4-4-12
TextoDeUUID(v) ==
    SubSeq(v.hex, 1, 8) \o <<"-">> \o SubSeq(v.hex, 9, 12) \o <<"-">>
    \o SubSeq(v.hex, 13, 16) \o <<"-">> \o SubSeq(v.hex, 17, 20) \o <<"-">>
    \o SubSeq(v.hex, 21, 32)

\* _serializar_valor; the SQL Server repository does the same in line, as
\* PostgreSQL does
_serializar_valor(m, valor) ==
    CASE valor.t \in {"datetime", "date"}   -> PyStr(isoformat(valor))
      [] valor.t = "time" /\ m = "mysql"    -> PyStr(isoformat(valor))
      [] valor.t = "Decimal"                -> PyFloat(valor.neg, valor.e, valor.f)
      [] valor.t = "UUID" /\ m # "mysql"    -> PyStr(TextoDeUUID(valor))
      [] OTHER                              -> valor

TiposTexto(m) ==
    CASE m = "postgresql" -> {"character varying", "varchar", "character", "char", "text",
                              "json", "jsonb"}
      [] m = "sqlserver"  -> {"varchar", "char", "text", "nvarchar", "nchar", "ntext"}
      [] m = "mysql"      -> {"varchar", "char", "text", "tinytext", "mediumtext", "longtext",
                              "enum", "set", "json"}

TiposSoportados(m) ==
    TiposEnteros(m) \cup TiposDecimales(m) \cup TiposFlotantes(m) \cup TiposBooleanos(m)
    \cup TiposUuid(m) \cup {"date"} \cup TiposFechaHora(m) \cup {"time"} \cup TiposTexto(m)

FechasNativas == { <<"2", "0", "2", "4", "-", "0", "1", "-", "1", "5">>, <<"1", "9", "9", "9", "-", "1", "2", "-", "3", "1">> }

\* the values a column of the type holds in the driver's native form
ValoresNativos(m, tipo) ==
    CASE tipo \in TiposEnteros(m)   -> {PyInt(0), PyInt(42), PyInt(0 - 7)}
      [] tipo \in TiposDecimales(m) -> {PyDecimal(FALSE, 19, <<"9", "9">>), PyDecimal(TRUE, 0, <<"5">>)}
      [] tipo \in TiposFlotantes(m) -> {PyFloat(FALSE, 1, <<"5">>), PyFloat(TRUE, 0, <<"2", "5">>),
                                        PyFloat(FALSE, 3, <<>>)}
      [] tipo \in TiposBooleanos(m) -> {PyBool(TRUE), PyBool(FALSE)}
      [] tipo \in TiposUuid(m)      -> {PyUUID(<<"1", "2", "3", "4", "5", "6", "7", "8", "1", "2", "3", "4", "5", "6", "7", "8", "1", "2", "3", "4", "5", "6", "7", "8", "1", "2", "3", "4", "5", "6", "7", "8">>),
                                        PyUUID(<<"0", "0", "0", "0", "0", "0", "0", "0", "0", "0", "0", "0", "0", "0", "0", "0", "0", "0", "0", "0", "0", "0", "0", "0", "0", "0", "a", "b", "c", "d", "e", "f">>)}
      [] tipo = "date"              -> {PyDate(f) : f \in FechasNativas}
      [] tipo \in TiposFechaHora(m) -> {PyDatetime(f, h[1], h[2], h[3], h[4]) :
                                            f \in FechasNativas,
                                            h \in {<<0, 0, 0, 0>>, <<10, 30, 5, 0>>,
                                                   <<23, 59, 59, 123>>, <<0, 0, 0, 999999>>}}
      [] tipo = "time"              -> {PyTime(0, 0, 0), PyTime(10, 30, 5), PyTime(23, 59, 59)}
      [] tipo \in TiposTexto(m)     -> {PyStr(<<>>), PyStr(<<"h", "o", "l", "a">>), PyStr(<<"4", "2">>),
                                        PyStr(<<" ", "2", "0", "2", "4", "-", "0", "1", "-", "1", "5", " ">>), PyStr(<<"t", "r", "u", "e">>)}

\* a value read from a column of the type, serialized, and sent back in a
\* request body for the same column
IdaYVuelta(m, valor, tipo) == ValorConvertido(m, _serializar_valor(m, valor), tipo)

SerializarYConvertir ==
    \E tipo \in TiposSoportados(motor) :
        \E valor \in ValoresNativos(motor, tipo) :
            ResponderRepositorio([op |-> "ida_y_vuelta", tipo |-> tipo, valor |-> valor],
                                 [resultado |-> IdaYVuelta(motor, valor, tipo),
                                  sentencias |-> <<>>])

InitTransporte == InitRutinas

NextTransporte == SerializarYConvertir

SpecTransporte == InitTransporte /\ [][NextTransporte]_vars

\* C17: in every engine's table repository a native value of a supported
\* column type, serialized for transport and converted back with the
\* column's catalog type, is the value again; a decimal comes back as the
\* float of the same number, and nothing else is lost
C17_IdaYVuelta ==
    peticion.op = "ida_y_vuelta" =>
        /\ resultado.tipo = "ok"
        /\ IF peticion.tipo \in TiposDecimales(motor)
           THEN MismoValor(resultado.valor,
                           PyFloat(peticion.valor.neg, peticion.valor.e, peticion.valor.f))
           ELSE MismoValor(resultado.valor, peticion.valor)

C17_Witness ==
    /\ peticion.op = "ida_y_vuelta"
    /\ peticion.valor.t = "datetime"
    /\ peticion.valor.micro # 0
    /\ resultado = Retorna(peticion.valor)

-----------------------------------------------------------------------------
(* The forbidden-table policy on its own: es_tabla_permitida applied to a  *)
(* name under a configured deny list.                                       *)

ListasPolitica ==
    CadenasTablasProhibidas
    \cup { <<" ", ",", " ">>, T_AUD, T_aud \o <<",">> \o T_prod,
           T_cfg \o <<",", " ">> \o T_aud \o <<" ", ",">> \o T_prod }

NombresPolitica ==
    NombresTabla
    \cup { <<" ", " ">>, T_cfg, <<" ">> \o T_cfg \o <<" ">>, T_prod \o <<" ">>,
           T_aud \o <<"x">>, <<"a", "u">>, <<"x">>, T_aud \o <<",">> \o T_prod,
           <<",">> }

EsTablaPermitida ==
    \E nombre_tabla \in NombresPolitica :
        Responder([op |-> "es_tabla_permitida", nombre_tabla |-> nombre_tabla],
                  [resultado |-> Retorna(es_tabla_permitida(nombre_tabla)),
                   llamadas |-> <<>>])

InitPolitica ==
    /\ tablas_prohibidas \in ListasPolitica
    /\ motor = "ninguno"
    /\ peticion = PeticionNinguna
    /\ resultado = ResultadoNinguno
    /\ llamadas = <<>>
    /\ sentencias = <<>>

NextPolitica == EsTablaPermitida

SpecPolitica == InitPolitica /\ [][NextPolitica]_vars

\* the names of the configured deny list, as written between the commas
NombresListados ==
    {x \in Rango(Split(tablas_prohibidas, ",")) : Strip(x) # <<>>}

\* the name equals a listed name when letter case is ignored
IgualSinMayusculas(a, b) == Lower(a) = Lower(b)

\* C19 as stated: with an empty deny list every name is permitted; with a
\* non-empty list exactly the names equal to a listed name ignoring case are
\* refused
C19_ListaDeNegacion ==
    peticion.op = "es_tabla_permitida" =>
        resultado = Retorna(~ \E t \in NombresListados :
                                IgualSinMayusculas(peticion.nombre_tabla, Strip(t)))

\* C19, amended: a blank name is refused whatever the list; a non-blank name
\* is refused exactly when, trimmed, it equals a trimmed listed name ignoring
\* case, so with an empty list every non-blank name is permitted
C19_ListaDeNegacionSinBlancos ==
    peticion.op = "es_tabla_permitida" =>
        resultado = Retorna(/\ ~EsBlanco(peticion.nombre_tabla)
                            /\ ~ \E t \in NombresListados :
                                   IgualSinMayusculas(Strip(peticion.nombre_tabla), Strip(t)))

C19_Witness ==
    /\ peticion.op = "es_tabla_permitida"
    /\ NombresListados # {}
    /\ peticion.nombre_tabla = T_AUD
    /\ resultado = Retorna(FALSE)

\* an empty deny list and a non-blank name: permitted
C19_WitnessListaVacia ==
    /\ peticion.op = "es_tabla_permitida"
    /\ NombresListados = {}
    /\ ~EsBlanco(peticion.nombre_tabla)
    /\ resultado = Retorna(TRUE)

-----------------------------------------------------------------------------
(* Date narrowing in the converters of the query repositories, applied to  *)
(* a value and again to what it returned.                                   *)

\* RepositorioConsultasSqlServer._convertir_datetime_a_date_si_aplica
_convertir_datetime_a_date_si_aplica(valor, tipo_columna) ==
    IF /\ valor.t = "datetime"
       /\ valor.hora = 0 /\ valor.minuto = 0 /\ valor.segundo = 0
       /\ Lower(tipo_columna) = <<"d", "a", "t", "e">>
    THEN PyDate(valor.fecha)
    ELSE valor

Convertidores ==
    { [m |-> "postgresql", f |-> "_convertir_valor_segun_tipo"],
      [m |-> "sqlserver", f |-> "_convertir_datetime_a_date_si_aplica"],
      [m |-> "sqlserver", f |-> "_convertir_valor_segun_tipo"],
      [m |-> "mysql", f |-> "_convertir_valor"] }

\* the converter applied to a value for a column or parameter of the type
Convertido(convertidor, valor, tipo) ==
    CASE convertidor.m = "postgresql" ->
             _convertir_valor_segun_tipo_postgresql(valor, tipo, <<"f", "e", "c", "h", "a">>)
      [] convertidor.m = "sqlserver" /\ convertidor.f = "_convertir_valor_segun_tipo" ->
             _convertir_valor_segun_tipo_sqlserver(valor, tipo, PyNone, <<"f", "e", "c", "h", "a">>)
      [] convertidor.m = "sqlserver" ->
             Retorna(_convertir_datetime_a_date_si_aplica(valor, tipo))
      [] convertidor.m = "mysql" ->
             Retorna(_convertir_valor_mysql(valor))

MaxVeces == 2

TiposDeFecha == { <<"d", "a", "t", "e">>, <<"D", "A", "T", "E">>, <<"d", "a", "t", "e", "t", "i", "m", "e">>, <<"t", "i", "m", "e", "s", "t", "a", "m", "p", " ", "w", "i", "t", "h", "o", "u", "t", " ", "t", "i", "m", "e", " ", "z", "o", "n", "e">> }

ValoresDeFecha ==
    { Medianoche, MedioDia,
      PyDatetime(<<"1", "9", "9", "9", "-", "1", "2", "-", "3", "1">>, 0, 0, 0, 0),
      PyDatetime(<<"2", "0", "2", "4", "-", "0", "1", "-", "1", "5">>, 0, 0, 0, 500),
      PyDatetime(<<"2", "0", "2", "4", "-", "0", "1", "-", "1", "5">>, 0, 0, 7, 0),
      PyDatetime(<<"2", "0", "2", "4", "-", "0", "1", "-", "1", "5">>, 0, 5, 0, 0),
      PyDate(<<"2", "0", "2", "4", "-", "0", "1", "-", "1", "5">>),
      PyDate(<<"1", "9", "9", "9", "-", "1", "2", "-", "3", "1">>) }

\* the converter on a value as it arrives
Estrechar ==
    \E convertidor \in Convertidores, valor \in ValoresDeFecha, tipo \in TiposDeFecha :
        /\ convertidor.m = motor
        /\ ResponderRepositorio([op |-> "estrechar", convertidor |-> convertidor,
                                 valor |-> valor, tipo |-> tipo, veces |-> 1],
                                [resultado |-> Convertido(convertidor, valor, tipo),
                                 sentencias |-> <<>>])

\* the converter on the value it returned
EstrecharDeNuevo ==
    /\ peticion.op = "estrechar"
    /\ peticion.veces < MaxVeces
    /\ resultado.tipo = "ok"
    /\ peticion' = [peticion EXCEPT !.veces = @ + 1]
    /\ resultado' = Convertido(peticion.convertidor, resultado.valor, peticion.tipo)
    /\ UNCHANGED <<tablas_prohibidas, motor, llamadas, sentencias>>

InitFechas == InitRutinas

NextFechas ==
    \/ Estrechar
    \/ EstrecharDeNuevo

SpecFechas == InitFechas /\ [][NextFechas]_vars

\* a timestamp with zero time of day, for a target of type date
MedianocheParaFecha ==
    /\ peticion.op = "estrechar"
    /\ peticion.valor.t = "datetime"
    /\ peticion.valor.hora = 0 /\ peticion.valor.minuto = 0
    /\ peticion.valor.segundo = 0 /\ peticion.valor.micro = 0
    /\ Lower(peticion.tipo) = <<"d", "a", "t", "e">>

\* C18: in every engine's converter a midnight timestamp for a date-typed
\* target becomes its date, and the converter applied again to that date
\* returns it unchanged
C18_EstrechamientoIdempotente ==
    MedianocheParaFecha => resultado = Retorna(PyDate(peticion.valor.fecha))

\* whatever the value and the type, the second application changes nothing
C18_SegundaVezSinCambio ==
    [][(peticion.op = "estrechar" /\ peticion'.op = "estrechar") => resultado' = resultado]_vars

C18_Witness ==
    /\ MedianocheParaFecha
    /\ peticion.veces = 2
    /\ resultado = Retorna(PyDate(peticion.valor.fecha))

-----------------------------------------------------------------------------
(* Values that arrive already hashed in a field of an encrypt list: on     *)
(* insert and update in the table repositories, and in the parameters of a  *)
(* routine in ServicioConsultas.                                            *)

PrefijoHash == <<"$", "2">>

\* the loop of _convertir_parametros_con_encriptacion over the encrypt list;
\* sales[i] is the salt bcrypt draws for the i-th field
RECURSIVE EncriptarCampos(_, _, _)
EncriptarCampos(parametros_genericos, campos, sales) ==
    IF campos = <<>> THEN Retorna(parametros_genericos)
    ELSE LET clave == ConArroba(Head(campos))
             valor == DictGet(parametros_genericos, clave)
         IN  IF /\ DictTiene(parametros_genericos, clave)
                /\ valor.t = "str" /\ valor.v # <<>>
                /\ ~StartsWith(valor.v, PrefijoHash)
             THEN (IF encriptar_lanza(valor.v) THEN Lanza("ValueError")
                   ELSE EncriptarCampos(
                            DictSet(parametros_genericos, clave,
                                    PyStr(encriptar(valor.v, Head(sales)))),
                            Tail(campos), Tail(sales)))
             ELSE EncriptarCampos(parametros_genericos, Tail(campos), Tail(sales))

\* campos_a_encriptar is a list of names; <<>> stands for None and for []
_convertir_parametros_con_encriptacion(parametros, campos, sales) ==
    LET parametros_genericos == _convertir_parametros_desde_json(parametros)
    IN  IF parametros_genericos.tipo # "ok" THEN parametros_genericos
        ELSE EncriptarCampos(parametros_genericos.valor, campos, sales)

ServicioConsultas_ejecutar_procedimiento_almacenado(nombre_sp, parametros, campos, sales, retorno) ==
    LET parametros_genericos == _convertir_parametros_con_encriptacion(parametros, campos, sales)
    IN  IF EsBlanco(nombre_sp) THEN SinLlamada("ValueError")
        ELSE IF parametros_genericos.tipo # "ok" THEN SinLlamada("ValueError")
        ELSE [resultado |-> retorno,
              llamadas  |-> <<[metodo |-> "ejecutar_procedimiento_almacenado_con_dictionary",
                               nombre_sp |-> nombre_sp,
                               parametros |-> parametros_genericos.valor]>>]

HashPrevio == <<"$", "2", "b", "$", "1", "2", "$", "a", "b", "c">>

DatosConCifrado ==
    { <<[k |-> C_clave, v |-> PyStr(HashPrevio)]>>,
      <<[k |-> C_clave, v |-> PyStr(<<"s", "3">>)]>>,
      <<[k |-> C_email, v |-> PyStr(<<"a", "@", "b">>)], [k |-> C_clave, v |-> PyStr(HashPrevio)]>>,
      <<[k |-> C_Clave, v |-> PyStr(HashPrevio)]>>,
      <<[k |-> C_clave, v |-> PyStr(PrefijoHash)]>>,
      <<[k |-> C_clave, v |-> PyStr(<<"$", "3", "x">>)]>>,
      <<[k |-> C_email, v |-> PyStr(HashPrevio)]>> }

ParametrosConCifrado ==
    { PyDict(d) : d \in DatosConCifrado }
    \cup { PyDict(<<[k |-> <<"@">> \o C_clave, v |-> PyStr(HashPrevio)]>>) }

ListasEncriptar == { <<>>, <<C_clave>>, <<<<"@">> \o C_clave>>, <<C_email, C_clave>> }

SinTipos == Catalogo("None", "None", "None")

CrearConCifrado ==
    \E datos \in DatosConCifrado, campos_encriptar \in CamposEncriptar,
       sales \in SalesRepositorio :
        ResponderRepositorio(
            [op |-> "crear", datos |-> datos, campos |-> campos_encriptar],
            Repositorio_crear(motor, <<"u", "s", "u", "a", "r", "i", "o">>, datos, NoneStr, campos_encriptar, sales,
                              SinTipos, Retorna(1)))

ActualizarConCifrado ==
    \E datos \in DatosConCifrado, campos_encriptar \in CamposEncriptar,
       sales \in SalesRepositorio :
        ResponderRepositorio(
            [op |-> "actualizar", datos |-> datos, campos |-> campos_encriptar],
            Repositorio_actualizar(motor, <<"u", "s", "u", "a", "r", "i", "o">>, C_id, <<"7">>, datos, NoneStr,
                                   campos_encriptar, sales, SinTipos, Retorna(1)))

RutinaConCifrado ==
    \E parametros \in ParametrosConCifrado, campos \in ListasEncriptar,
       sales \in SalesRepositorio :
        Responder([op |-> "rutina", datos |-> parametros.items, campos |-> campos],
                  ServicioConsultas_ejecutar_procedimiento_almacenado(
                      <<"s", "p", "_", "a", "l", "t", "a">>, parametros, campos, sales, Retorna(<<>>)))

InitCifrado == InitRutinas

NextCifrado ==
    \/ CrearConCifrado
    \/ ActualizarConCifrado
    \/ RutinaConCifrado

SpecCifrado == InitCifrado /\ [][NextCifrado]_vars

\* the i-th field of the request holds a hashed value and is named in the
\* encrypt list of the request
HashEnCampoListado(i) ==
    /\ peticion.datos[i].v.t = "str"
    /\ StartsWith(peticion.datos[i].v.v, PrefijoHash)
    /\ IF peticion.op = "rutina"
       THEN \E j \in 1..Len(peticion.campos) :
                ConArroba(peticion.campos[j]) = ConArroba(peticion.datos[i].k)
       ELSE /\ peticion.campos # NoneStr
            /\ Lower(peticion.datos[i].k) \in campos_a_encriptar(peticion.campos)

\* what was bound for the i-th field: in the statement sent to the engine,
\* or in the parameters handed to the repository
ValorEnlazado(i) ==
    IF peticion.op = "rutina"
    THEN DictGet(llamadas[1].parametros, ConArroba(peticion.datos[i].k))
    ELSE DictGet(sentencias[1].params, NombreParametro(motor, peticion.datos[i].k))

SeEnlazo == IF peticion.op = "rutina" THEN llamadas # <<>> ELSE sentencias # <<>>

\* C20: a value already in hashed form (prefix '$2') in a field named in an
\* encrypt list is bound unchanged on insert, on update and on routine
\* execution
C20_HashNoSeRepite ==
    (peticion.op \in {"crear", "actualizar", "rutina"} /\ SeEnlazo) =>
        \A i \in 1..Len(peticion.datos) :
            HashEnCampoListado(i) => ValorEnlazado(i) = peticion.datos[i].v

\* C20 on routine execution alone
C20_EnRutinas ==
    (peticion.op = "rutina" /\ SeEnlazo) =>
        \A i \in 1..Len(peticion.datos) :
            HashEnCampoListado(i) => ValorEnlazado(i) = peticion.datos[i].v

-----------------------------------------------------------------------------
(* validar_consulta_con_dictionary of the query repositories: the          *)
(* statements it sends and what it returns for the engine's answer.         *)

\* the loop over (parametros or {}).items() of the validation: only
\* MySQL/MariaDB converts the value
RECURSIVE PrepararValidacion(_, _, _, _, _)
PrepararValidacion(m, consulta_final, valores, pendientes, param_index) ==
    IF pendientes = <<>> THEN [consulta_final |-> consulta_final, valores |-> valores]
    ELSE PrepararValidacion(m,
             Replace(consulta_final, ConArroba(Head(pendientes).k),
                     MarcadorNativo(m, param_index)),
             Append(valores, IF m = "mysql" THEN _convertir_valor_mysql(Head(pendientes).v)
                             ELSE Head(pendientes).v),
             Tail(pendientes), param_index + 1)

ExplainDe(consulta_final) == <<"E", "X", "P", "L", "A", "I", "N", " ">> \o consulta_final

TuplaDeRespuesta(m, respuesta) ==
    IF respuesta = "aceptada" THEN Retorna(Tupla(TRUE, PyNone))
    ELSE AlPropagar(m, "validar_consulta_con_dictionary",
                    ErrorCon("Error", <<"e", "r", "r", "o", "r", " ", "1", "0", "2", " ", "n", "e", "a", "r">>))

\* respuesta: "sin_conexion" when connecting fails, otherwise what the engine
\* says of the statement it is given: "aceptada" or "rechazada"
RepositorioConsultas_validar_consulta(m, consulta_sql, parametros, respuesta) ==
    LET items == IF parametros.t = "None" THEN <<>> ELSE parametros.items
        preparada == PrepararValidacion(m, consulta_sql, <<>>, items, 1)
        es_select == StartsWith(Upper(Strip(consulta_sql)), <<"S", "E", "L", "E", "C", "T">>)
    IN  IF m = "mysql" /\ EsBlanco(consulta_sql)
        THEN [resultado |-> Retorna(Tupla(FALSE, PyStr(<<"L", "a", " ", "c", "o", "n", "s", "u", "l", "t", "a", " ", "S", "Q", "L", " ", "e", "s", "t", "a", " ", "v", "a", "c", "i", "a", ".">>))),
              sentencias |-> <<>>]
        ELSE IF respuesta = "sin_conexion"
        THEN [resultado |-> TuplaDeRespuesta(m, respuesta), sentencias |-> <<>>]
        ELSE CASE m = "postgresql" ->
                      [resultado |-> TuplaDeRespuesta(m, respuesta),
                       sentencias |-> <<Sentencia(ExplainDe(preparada.consulta_final),
                                                  preparada.valores)>>]
               [] m = "sqlserver" ->
                      [resultado |-> TuplaDeRespuesta(m, respuesta),
                       sentencias |->
                           <<Sentencia(<<"S", "E", "T", " ", "P", "A", "R", "S", "E", "O", "N", "L", "Y", " ", "O", "N">>, <<>>),
                             Sentencia(preparada.consulta_final, preparada.valores)>>
                           \o (IF respuesta = "aceptada"
                               THEN <<Sentencia(<<"S", "E", "T", " ", "P", "A", "R", "S", "E", "O", "N", "L", "Y", " ", "O", "F", "F">>, <<>>)>> ELSE <<>>)]
               [] m = "mysql" ->
                      IF es_select
                      THEN [resultado |-> TuplaDeRespuesta(m, respuesta),
                            sentencias |-> <<Sentencia(ExplainDe(preparada.consulta_final),
                                                       preparada.valores)>>]
                      ELSE [resultado |-> Retorna(Tupla(TRUE, PyNone)), sentencias |-> <<>>]

ConsultasDeValidacion ==
    { <<>>, <<" ">>, <<"S", "E", "L", "E", "C", "T", " ", "1">>, <<" ", " ", "s", "e", "l", "e", "c", "t", " ", "1">>, <<"S", "E", "L", "E", "C", " ", "1">>,
      <<"S", "E", "L", "E", "C", "T", " ", "*", " ", "F", "R", "O", "M", " ", "t", " ", "W", "H", "E", "R", "E", " ", "i", "d", " ", "=", " ", "@", "i", "d">>, <<"D", "E", "L", "E", "T", "E", " ", "F", "R", "O", "M", " ", "t">>, <<"D", "E", "L", "E", "T", "E", " ", "F", "R", "O", "M", " ", "t", " ", "W", "H", "E", "R", "E", " ", "i", "d", " ", "=", " ", "@", "i", "d">>,
      <<"W", "I", "T", "H", " ", "c", " ", "A", "S", " ", "(", "S", "E", "L", "E", "C", "T", " ", "1", ")", " ", "S", "E", "L", "E", "C", "T", " ", "*", " ", "F", "R", "O", "M", " ", "c">>, <<"D", "R", "O", "P", " ", "T", "A", "B", "L", "X">>, <<"A", "N", "A", "L", "Y", "Z", "E", " ", "D", "E", "L", "E", "T", "E", " ", "F", "R", "O", "M", " ", "t">>,
      <<"U", "P", "D", "A", "T", "E", " ", "t", " ", "S", "E", "T", " ", "a", " ", "=", " ", "1">> }

ParametrosDeValidacion ==
    { PyNone, PyDict(<<>>), PyDict(<<[k |-> T_id, v |-> PyInt(7)]>>),
      PyDict(<<[k |-> <<"@">> \o T_id, v |-> Medianoche]>>) }

RespuestasDelMotor == {"aceptada", "rechazada", "sin_conexion"}

ValidarConsulta ==
    \E consulta_sql \in ConsultasDeValidacion, parametros \in ParametrosDeValidacion,
       respuesta \in RespuestasDelMotor :
        ResponderRepositorio(
            [op |-> "validar", consulta_sql |-> consulta_sql, parametros |-> parametros,
             respuesta |-> respuesta],
            RepositorioConsultas_validar_consulta(motor, consulta_sql, parametros, respuesta))

InitValidacion == InitRutinas

NextValidacion == ValidarConsulta

SpecValidacion == InitValidacion /\ [][NextValidacion]_vars

\* the statement of the request with its markers in the engine's form
ConsultaPreparada ==
    PrepararValidacion(motor, peticion.consulta_sql, <<>>,
                       IF peticion.parametros.t = "None" THEN <<>>
                       ELSE peticion.parametros.items, 1).consulta_final

\* EXPLAIN ANALYZE runs the statement it explains
ExplainQueEjecuta(texto) ==
    /\ StartsWith(texto, <<"E", "X", "P", "L", "A", "I", "N", " ">>)
    /\ StartsWith(Upper(Strip(SubSeq(texto, 9, Len(texto)))), <<"A", "N", "A", "L", "Y", "Z", "E">>)

\* the i-th statement sent is the request's statement under EXPLAIN, or the
\* request's statement itself after SET PARSEONLY ON
EsEnsayoDeLaConsulta(i) ==
    IF motor = "sqlserver"
    THEN /\ sentencias[i].sql = ConsultaPreparada
         /\ i > 1
         /\ sentencias[i - 1].sql = <<"S", "E", "T", " ", "P", "A", "R", "S", "E", "O", "N", "L", "Y", " ", "O", "N">>
    ELSE /\ sentencias[i].sql = ExplainDe(ConsultaPreparada)
         /\ ~ExplainQueEjecuta(sentencias[i].sql)

EsCambioDeModo(i) == sentencias[i].sql \in { <<"S", "E", "T", " ", "P", "A", "R", "S", "E", "O", "N", "L", "Y", " ", "O", "N">>, <<"S", "E", "T", " ", "P", "A", "R", "S", "E", "O", "N", "L", "Y", " ", "O", "F", "F">> }

ValidacionAceptada ==
    /\ peticion.op = "validar"
    /\ resultado = Retorna(Tupla(TRUE, PyNone))

\* C21: validation answers (true, no message) only if the engine accepted a
\* dry run of the given statement, whatever the engine and the statement, and
\* everything it sends is a dry run: no rows of the statement are fetched and
\* none of its effects applied
C21_SoloSiElEnsayoFueAceptado ==
    peticion.op = "validar" =>
        /\ ValidacionAceptada =>
               /\ peticion.respuesta = "aceptada"
               /\ \E i \in 1..Len(sentencias) : EsEnsayoDeLaConsulta(i)
        /\ \A i \in 1..Len(sentencias) : EsEnsayoDeLaConsulta(i) \/ EsCambioDeModo(i)

\* C21 on SQL Server
C21_EnSqlServer == motor = "sqlserver" => C21_SoloSiElEnsayoFueAceptado

\* C21 for statements that begin with SELECT, on every engine
C21_ParaSelect ==
    (peticion.op = "validar" /\ StartsWith(Upper(Strip(peticion.consulta_sql)), <<"S", "E", "L", "E", "C", "T">>))
        => C21_SoloSiElEnsayoFueAceptado

-----------------------------------------------------------------------------
(* _convertir_valor of the table repositories on texts that do and do not  *)
(* read as a value of the target type.                                      *)

TextosDeEntrada ==
    { <<>>, <<"4", "2">>, <<"-", "7">>, <<"a", "b", "c">>, <<"1", ".", "5">>, <<"N", "O", "P", "E">>, <<"2", "0", "2", "4", "-", "0", "1", "-", "1", "5">>, <<"2", "0", "2", "4", "-", "1", "3", "-", "4", "5">>,
      <<"2", "0", "2", "4", "-", "0", "1", "-", "1", "5", "T", "1", "0", ":", "3", "0", ":", "0", "0">>, <<"1", "0", ":", "3", "0", ":", "0", "0">>, <<"2", "5", ":", "0", "0", ":", "0", "0">>, <<"t", "r", "u", "e">>,
      <<"1", "2", "3", "4", "5", "6", "7", "8", "-", "1", "2", "3", "4", "-", "5", "6", "7", "8", "-", "1", "2", "3", "4", "-", "5", "6", "7", "8", "1", "2", "3", "4", "5", "6", "7", "8">>, <<"n", "o", "t", "-", "a", "-", "u", "u", "i", "d">> }

TiposConConversion(m) == TiposSoportados(m) \ TiposTexto(m)

ConvertirValor ==
    \E tipo \in TiposConConversion(motor), valor \in TextosDeEntrada :
        ResponderRepositorio([op |-> "_convertir_valor", valor |-> valor, tipo |-> tipo],
                             [resultado |-> _convertir_valor(motor, valor, tipo),
                              sentencias |-> <<>>])

InitConversion == InitRutinas

NextConversion == ConvertirValor

SpecConversion == InitConversion /\ [][NextConversion]_vars

\* the text reads as a value of the type; every text reads as a boolean
SeInterpretaComo(m, valor, tipo) ==
    CASE tipo \in TiposEnteros(m)   -> EsTextoEntero(valor)
      [] tipo \in TiposDecimales(m) -> EsTextoFloat(valor)
      [] tipo \in TiposFlotantes(m) -> EsTextoFloat(valor)
      [] tipo \in TiposBooleanos(m) -> TRUE
      [] tipo \in TiposUuid(m)      -> EsTextoUUID(valor)
      [] tipo = "date"              -> _extraer_solo_fecha_valida(valor)
      [] tipo \in TiposFechaHora(m) ->
             EsTextoDatetime(Replace(valor, <<"Z">>, <<"+", "0", "0", ":", "0", "0">>))
      [] tipo = "time"              -> EsTextoHora(valor)

TextoQueNoSeInterpreta ==
    /\ peticion.op = "_convertir_valor"
    /\ ~SeInterpretaComo(motor, peticion.valor, peticion.tipo)

\* C22: for every target type and every text that does not read as a value
\* of it, _convertir_valor returns the text unchanged and raises nothing
C22_TextoOriginalSinError ==
    TextoQueNoSeInterpreta => resultado = Retorna(PyStr(peticion.valor))

\* C22 for the target types other than decimal/numeric
C22_SalvoDecimales ==
    (TextoQueNoSeInterpreta /\ peticion.tipo \notin TiposDecimales(motor))
        => resultado = Retorna(PyStr(peticion.valor))

-----------------------------------------------------------------------------
(* _detectar_tipo_columna inside the operations of the table repositories: *)
(* the catalog query answers with the column's type or fails.               *)

\* except Exception: print(...); return None
_detectar_tipo_columna(catalogo, nombre_columna, falla) ==
    IF falla THEN "None" ELSE catalogo[nombre_columna]

\* the types the operation works with when its catalog queries fail or not
TiposDetectados(catalogo, falla) ==
    [c \in Columnas |-> _detectar_tipo_columna(catalogo, c, falla)]

CatalogoConTipos == Catalogo("integer", "character varying", "integer")

CatalogosDeDeteccion ==
    { CatalogoConTipos, Catalogo("int", "varchar", "int"), Catalogo("bigint", "text", "smallint") }

DatosDeDeteccion ==
    { <<[k |-> C_edad, v |-> PyStr(<<"4", "2">>)]>>,
      <<[k |-> C_edad, v |-> PyInt(42)]>>,
      <<[k |-> C_email, v |-> PyStr(<<"a", "@", "b">>)], [k |-> C_edad, v |-> PyStr(<<"4", "2">>)]>> }

CrearConDeteccion ==
    \E datos \in DatosDeDeteccion, catalogo \in CatalogosDeDeteccion, falla \in BOOLEAN,
       retorno \in RetornosMotor :
        ResponderRepositorio(
            [op |-> "crear", datos |-> datos, falla |-> falla, catalogo |-> catalogo],
            Repositorio_crear(motor, <<"u", "s", "u", "a", "r", "i", "o">>, datos, NoneStr, NoneStr, SalesEntidades,
                              TiposDetectados(catalogo, falla), retorno))

ActualizarConDeteccion ==
    \E datos \in DatosDeDeteccion, catalogo \in CatalogosDeDeteccion, falla \in BOOLEAN,
       retorno \in RetornosMotor :
        ResponderRepositorio(
            [op |-> "actualizar", datos |-> datos, falla |-> falla, catalogo |-> catalogo],
            Repositorio_actualizar(motor, <<"u", "s", "u", "a", "r", "i", "o">>, C_id, <<"7">>, datos, NoneStr, NoneStr,
                                   SalesEntidades, TiposDetectados(catalogo, falla), retorno))

EliminarConDeteccion ==
    \E catalogo \in CatalogosDeDeteccion, falla \in BOOLEAN, retorno \in RetornosMotor :
        ResponderRepositorio(
            [op |-> "eliminar", datos |-> <<>>, falla |-> falla, catalogo |-> catalogo],
            Repositorio_eliminar(motor, <<"u", "s", "u", "a", "r", "i", "o">>, C_id, <<"7">>, NoneStr,
                                 TiposDetectados(catalogo, falla), retorno))

ObtenerPorClaveConDeteccion ==
    \E catalogo \in CatalogosDeDeteccion, falla \in BOOLEAN, retorno \in RetornosMotor :
        ResponderRepositorio(
            [op |-> "obtener_por_clave", datos |-> <<>>, falla |-> falla,
             catalogo |-> catalogo],
            Repositorio_obtener_por_clave(motor, <<"u", "s", "u", "a", "r", "i", "o">>, C_id, <<"7">>, NoneStr,
                                          TiposDetectados(catalogo, falla), retorno))

InitDeteccion == InitRutinas

NextDeteccion ==
    \/ CrearConDeteccion
    \/ ActualizarConDeteccion
    \/ EliminarConDeteccion
    \/ ObtenerPorClaveConDeteccion

SpecDeteccion == InitDeteccion /\ [][NextDeteccion]_vars

\* the operation asked the catalog for a column's type and the query failed
FalloLaDeteccion ==
    /\ peticion.op \in {"crear", "actualizar", "eliminar", "obtener_por_clave"}
    /\ "falla" \in DOMAIN peticion
    /\ peticion.falla
    /\ \/ peticion.op \in {"actualizar", "obtener_por_clave"}
       \/ peticion.op = "eliminar" /\ motor # "mysql"
       \/ peticion.op = "crear" /\ \E i \in 1..Len(peticion.datos) : peticion.datos[i].v.t = "str"

\* C23: a failure of the catalog query that discovers a column's type reaches
\* the caller of the CRUD operation, and the operation's statement is not
\* executed
C23_FalloDeCatalogoSePropaga ==
    FalloLaDeteccion => (resultado.tipo # "ok" /\ sentencias = <<>>)

\* what the code does instead: the statement is sent, and the operation
\* answers as the engine does for it
C23_LaSentenciaSeEnvia ==
    FalloLaDeteccion => Len(sentencias) = 1


-----------------------------------------------------------------------------
(* The converters of routine parameters on null, structured and JSON-shaped *)
(* values: _convertir_valor_segun_tipo (PostgreSQL, SQL Server) and         *)
(* _convertir_valor (MySQL/MariaDB).                                        *)

\* a parameter of the catalog: its type and, for SQL Server, its max_length
TipoDeParametro(tipo, max_length) == [tipo |-> tipo, max_length |-> max_length]

TiposDeParametro ==
    { TipoDeParametro(<<"i", "n", "t", "e", "g", "e", "r">>, PyNone), TipoDeParametro(<<"I", "N", "T">>, PyNone),
      TipoDeParametro(<<"i", "n", "t", "4">>, PyNone), TipoDeParametro(<<"b", "i", "g", "i", "n", "t">>, PyNone),
      TipoDeParametro(<<"i", "n", "t", "8">>, PyNone), TipoDeParametro(<<"n", "u", "m", "e", "r", "i", "c">>, PyNone),
      TipoDeParametro(<<"d", "e", "c", "i", "m", "a", "l">>, PyNone), TipoDeParametro(<<"j", "s", "o", "n">>, PyNone),
      TipoDeParametro(<<"j", "s", "o", "n", "b">>, PyNone), TipoDeParametro(<<"t", "e", "x", "t">>, PyNone),
      TipoDeParametro(<<"b", "o", "o", "l", "e", "a", "n">>, PyNone), TipoDeParametro(<<"b", "i", "t">>, PyNone),
      TipoDeParametro(<<"n", "v", "a", "r", "c", "h", "a", "r">>, PyInt(-1)), TipoDeParametro(<<"n", "v", "a", "r", "c", "h", "a", "r">>, PyInt(50)) }

NombresParaConvertir == { <<"p">>, <<"d", "a", "t", "o", "s", "_", "j", "s", "o", "n">> }

ValoresDeParametro ==
    { PyNone, PyInt(7), PyBool(TRUE), PyStr(<<"4", "2">>), PyStr(<<"a", "b", "c">>),
      PyStr(ObjetoJson), PyStr(<<" ", "[", "1", ",", " ", "2", "]">>),
      PyDict(<<>>),
      PyDict(<<[k |-> <<"a">>, v |-> PyInt(1)]>>),
      PyDict(<<[k |-> <<"a">>, v |-> PyStr(<<"x">>)], [k |-> <<"b">>, v |-> PyNone]>>),
      PyList(<<PyInt(1), PyInt(2)>>),
      PyList(<<PyStr(<<"x">>), PyBool(TRUE)>>) }

\* the converter of the engine's query repository on one parameter
ConvertirParametro ==
    \E valor \in ValoresDeParametro, tipo \in TiposDeParametro, nombre \in NombresParaConvertir :
        ResponderRepositorio(
            [tipo |-> tipo.tipo, valor |-> valor, op |-> "convertir_parametro",
             nombre |-> nombre, max_length |-> tipo.max_length],
            [resultado |-> ConversionDeRutina(motor, tipo, nombre, valor),
             sentencias |-> <<>>])

InitParametros == InitRutinas

NextParametros == ConvertirParametro

SpecParametros == InitParametros /\ [][NextParametros]_vars

\* a null for a parameter of one of the types, in an engine that converts by type
NuloParaTipo(tipos) ==
    /\ peticion.op = "convertir_parametro"
    /\ motor \in {"postgresql", "sqlserver"}
    /\ peticion.valor.t = "None"
    /\ Lower(peticion.tipo) \in tipos

ResultadoEs(t) == resultado.tipo = "ok" /\ resultado.valor.t = t

\* C24: in the conversion of routine parameters a null for an integer or
\* bigint parameter becomes 0 and a null for a numeric or decimal parameter
\* becomes 0.0
C24_NuloACero ==
    /\ NuloParaTipo({<<"i", "n", "t", "e", "g", "e", "r">>, <<"i", "n", "t">>, <<"i", "n", "t", "4">>, <<"b", "i", "g", "i", "n", "t">>, <<"i", "n", "t", "8">>})
           => ResultadoEs("int") /\ resultado.valor.v = 0
    /\ NuloParaTipo({<<"n", "u", "m", "e", "r", "i", "c">>, <<"d", "e", "c", "i", "m", "a", "l">>})
           => /\ ResultadoEs("float")
              /\ resultado.valor.e = 0 /\ resultado.valor.f = <<>>

\* what the converters do with a null, whatever the type: it stays a null
C24_NuloSigueNulo ==
    (peticion.op = "convertir_parametro" /\ peticion.valor.t = "None")
        => ResultadoEs("None")

C24_Witness ==
    /\ NuloParaTipo({<<"b", "i", "g", "i", "n", "t">>})
    /\ ResultadoEs("None")

\* the engine's own detection of a JSON parameter
ParametroDetectadoComoJson ==
    /\ peticion.op = "convertir_parametro"
    /\ CASE motor = "postgresql" ->
                _es_json_postgresql(peticion.tipo, peticion.nombre, peticion.valor)
         [] motor = "sqlserver" ->
                _es_json_sqlserver(peticion.tipo, peticion.max_length,
                                   peticion.nombre, peticion.valor)
         [] OTHER -> FALSE

EsEstructurado == peticion.valor.t \in {"dict", "list"}

\* C25: in every engine's converter a structured value for a parameter
\* detected as JSON is bound as its JSON text, and a JSON-shaped string is
\* bound unchanged
C25_EstructuradoComoTextoJson ==
    /\ (ParametroDetectadoComoJson /\ EsEstructurado)
           => ResultadoEs("str") /\ resultado.valor.v = json_dumps(peticion.valor)
    /\ (peticion.op = "convertir_parametro" /\ ParecJson(peticion.valor))
           => ResultadoEs("str") /\ resultado.valor.v = peticion.valor.v

\* PostgreSQL alone: json.dumps for the structured value
C25_EnPostgreSQL ==
    (motor = "postgresql" /\ ParametroDetectadoComoJson /\ EsEstructurado)
        => ResultadoEs("str") /\ resultado.valor.v = json_dumps(peticion.valor)

\* the three engines: the JSON-shaped string is bound as it came
C25_TextoJsonSinCambio ==
    (peticion.op = "convertir_parametro" /\ ParecJson(peticion.valor))
        => ResultadoEs("str") /\ resultado.valor.v = peticion.valor.v

\* SQL Server: the structured value is bound as str(valor)
C25_EnSqlServerStr ==
    (motor = "sqlserver" /\ ParametroDetectadoComoJson /\ EsEstructurado)
        => ResultadoEs("str") /\ resultado.valor.v = repr(peticion.valor)


-----------------------------------------------------------------------------
(* obtener_por_clave on key columns of every catalog type, with values that *)
(* are dates, timestamps, numbers and other texts.                          *)

TiposDeClave ==
    { "None", "integer", "numeric", "date", "time", "character varying",
      "timestamp without time zone", "timestamp with time zone",
      "datetime", "datetime2", "smalldatetime", "timestamp" }

ValoresDeClave ==
    { <<"2", "0", "2", "4", "-", "0", "1", "-", "1", "5">>, <<"1", "9", "9", "9", "-", "1", "2", "-", "3", "1">>, <<"2", "0", "2", "4", "-", "1", "3", "-", "4", "5">>, <<"a", "b", "-", "c", "d", "-", "e", "f", "g", "h">>, <<"2", "0", "2", "4", "-", "1", "-", "1", "5", "0">>,
      <<"2", "0", "2", "4", "-", "0", "1", "-", "1", "5", "T", "1", "0", ":", "3", "0", ":", "0", "0">>, <<"2", "0", "2", "4", "-", "0", "1", "-", "1", "5", " ", "1", "0", ":", "3", "0", ":", "0", "0">>, <<"4", "2">>, <<"a", "b", "c">> }

BuscarPorClave ==
    \E tipo \in TiposDeClave, valor \in ValoresDeClave, retorno \in RetornosMotor :
        ResponderRepositorio(
            [tipo |-> tipo, valor |-> valor, op |-> "por_clave"],
            Repositorio_obtener_por_clave(motor, <<"u", "s", "u", "a", "r", "i", "o">>, C_id, valor, NoneStr,
                                          Catalogo(tipo, "None", "None"), retorno))

InitPorClave == InitRutinas

NextPorClave == BuscarPorClave

SpecPorClave == InitPorClave /\ [][NextPorClave]_vars

\* the WHERE of the statement sent compares the column cast to a date
ComparaSoloFecha ==
    \E i \in 1..Len(sentencias[1].sql) :
        sentencias[1].sql[i] \in {Texto("CAST("), Texto("DATE(")}

ValorEnlazadoPorClave == sentencias[1].params[1].v

\* a timestamp column as the repository's own conversion knows them, and a
\* value that is a date YYYY-MM-DD
FechaSolaEnColumnaDeTiempo ==
    /\ peticion.op = "por_clave"
    /\ peticion.tipo \in TiposFechaHora(motor)
    /\ EsTextoFecha(peticion.valor)

\* every other lookup whose value the conversion by type accepts
OtraBusquedaPorClave ==
    /\ peticion.op = "por_clave"
    /\ ~(peticion.tipo \in TiposFechaHora(motor) /\ EsTextoFecha(peticion.valor))
    /\ _convertir_valor(motor, peticion.valor, peticion.tipo).tipo = "ok"

\* C26: obtener_por_clave, every engine: a bare date for a key column of a
\* timestamp type is compared with the column cast to date-only and bound as
\* the parsed date; in every other case the column itself is compared with
\* the value converted by the column's type
C26_FechaSolaContraColumnaDeTiempo ==
    /\ FechaSolaEnColumnaDeTiempo
           => /\ Len(sentencias) = 1
              /\ ComparaSoloFecha
              /\ MismoValor(ValorEnlazadoPorClave, PyDate(peticion.valor))
    /\ OtraBusquedaPorClave
           => /\ Len(sentencias) = 1
              /\ ~ComparaSoloFecha
              /\ MismoValor(ValorEnlazadoPorClave,
                            _convertir_valor(motor, peticion.valor, peticion.tipo).valor)

\* the same with the types and the value shape the code tests: the types of
\* TiposBusquedaFecha and a text of 10 characters with two '-', no T, no ':'
C26_SegunElCodigo ==
    /\ (FechaSolaEnColumnaDeTiempo /\ peticion.tipo \in TiposBusquedaFecha(motor))
           => /\ Len(sentencias) = 1
              /\ ComparaSoloFecha
              /\ MismoValor(ValorEnlazadoPorClave, PyDate(peticion.valor))
    /\ (OtraBusquedaPorClave
        /\ ~(peticion.tipo \in TiposBusquedaFecha(motor) /\ _es_fecha_sin_hora(peticion.valor)))
           => /\ Len(sentencias) = 1
              /\ ~ComparaSoloFecha
              /\ MismoValor(ValorEnlazadoPorClave,
                            _convertir_valor(motor, peticion.valor, peticion.tipo).valor)

\* a text of the shape the code tests that is no date: no statement is sent
C26_FormaDeFechaSinSerlo ==
    (/\ peticion.op = "por_clave"
     /\ peticion.tipo \in TiposBusquedaFecha(motor)
     /\ _es_fecha_sin_hora(peticion.valor)
     /\ ~EsTextoFecha(peticion.valor))
        => sentencias = <<>> /\ resultado = Lanza("RuntimeError")


-----------------------------------------------------------------------------
(* Routines of the same name in two schemas: what the catalog queries of    *)
(* ejecutar_procedimiento_almacenado_con_dictionary find for a name with a  *)
(* schema prefix.                                                           *)

\* a routine of the catalog; tipo "None" when the schema has none of the name
RutinaDeCatalogo(tipo, metadatos) == [tipo |-> tipo, metadatos |-> metadatos]

NoRutina == RutinaDeCatalogo("None", <<>>)

S_ventas == <<"v", "e", "n", "t", "a", "s">>

\* the routines named f: the one of schema ventas, the one of the default schema
CatalogosDeRutinas ==
    { [defecto |-> p, ventas |-> v] :
        v \in { NoRutina,
                RutinaDeCatalogo("FUNCTION", <<>>),
                RutinaDeCatalogo("FUNCTION", <<ParametroCatalogo(<<"a">>, "IN", <<"i", "n", "t", "e", "g", "e", "r">>)>>),
                RutinaDeCatalogo("PROCEDURE", <<ParametroCatalogo(<<"a">>, "IN", <<"i", "n", "t", "e", "g", "e", "r">>)>>) },
        p \in { NoRutina,
                RutinaDeCatalogo("PROCEDURE", <<ParametroCatalogo(<<"x">>, "IN", <<"t", "e", "x", "t">>)>>),
                RutinaDeCatalogo("FUNCTION", <<ParametroCatalogo(<<"x">>, "IN", <<"t", "e", "x", "t">>)>>) } }

\* PostgreSQL: WHERE routine_schema = $1 AND routine_name = $2 with a schema,
\* else WHERE routine_name = $1 ORDER BY public first; LIMIT 1
RutinaHalladaPostgreSQL(cat, esquema, nombre) ==
    IF nombre # <<"f">> THEN NoRutina
    ELSE IF esquema # NoneStr /\ Strip(esquema) # <<>>
         THEN (IF esquema = S_ventas THEN cat.ventas
               ELSE IF esquema = <<"p", "u", "b", "l", "i", "c">> THEN cat.defecto
               ELSE NoRutina)
    ELSE IF cat.defecto # NoRutina THEN cat.defecto
    ELSE cat.ventas

\* SQL Server: WHERE ROUTINE_NAME = ? and WHERE SPECIFIC_NAME = ? with the
\* whole nombre_sp, in no schema in particular; fetchone() takes the first
\* row and the parameters of every match come together
RutinaHalladaSqlServer(cat, nombre_sp, primero) ==
    LET orden == IF primero = "defecto" THEN <<cat.defecto, cat.ventas>>
                 ELSE <<cat.ventas, cat.defecto>>
        halladas == SelectSeq(orden, LAMBDA r : r # NoRutina)
    IN  IF nombre_sp # <<"f">> \/ halladas = <<>> THEN NoRutina
        ELSE RutinaDeCatalogo(halladas[1].tipo,
                              Concatenar([i \in 1..Len(halladas) |-> halladas[i].metadatos]))

RutinaHallada(m, cat, nombre_sp, primero) ==
    LET punto == PosicionPunto(nombre_sp)
    IN  CASE m = "postgresql" ->
                 RutinaHalladaPostgreSQL(
                     cat,
                     IF punto = 0 THEN NoneStr ELSE Strip(SubSeq(nombre_sp, 1, punto - 1)),
                     IF punto = 0 THEN nombre_sp ELSE Strip(Resto(nombre_sp, punto)))
          [] m = "sqlserver" -> RutinaHalladaSqlServer(cat, nombre_sp, primero)
          [] OTHER -> NoRutina

NombresConEsquema == { <<"v", "e", "n", "t", "a", "s", ".", "f">>, <<"f">>, <<"p", "u", "b", "l", "i", "c", ".", "f">>, <<"o", "t", "r", "o", ".", "f">>, <<"v", "e", "n", "t", "a", "s", ".", "g">> }

ArgumentosDeRutina ==
    { PyNone,
      PyDict(<<[k |-> <<"a">>, v |-> PyInt(1)]>>),
      PyDict(<<[k |-> <<"a">>, v |-> PyStr(<<"5">>)], [k |-> <<"x">>, v |-> PyStr(<<"t">>)]>>) }

EjecutarRutinaConEsquema ==
    \E nombre_sp \in NombresConEsquema, parametros \in ArgumentosDeRutina,
       cat \in CatalogosDeRutinas, primero \in {"defecto", "ventas"},
       retorno \in RetornosRutina :
        LET hallada == RutinaHallada(motor, cat, nombre_sp, primero)
        IN  ResponderRepositorio(
                [op |-> "rutina_con_esquema", parametros |-> parametros,
                 catalogo |-> cat, nombre_sp |-> nombre_sp, hallada |-> hallada],
                RepositorioConsultas_ejecutar_procedimiento(
                    motor, nombre_sp, parametros, hallada.tipo, hallada.metadatos, retorno))

InitEsquemaRutina == InitRutinas

NextEsquemaRutina == EjecutarRutinaConEsquema

SpecEsquemaRutina == InitEsquemaRutina /\ [][NextEsquemaRutina]_vars

\* the name ventas.f was asked, in an engine whose routines live in schemas,
\* and schema ventas has a routine f
PideRutinaDeVentas ==
    /\ peticion.op = "rutina_con_esquema"
    /\ peticion.nombre_sp = <<"v", "e", "n", "t", "a", "s", ".", "f">>
    /\ peticion.catalogo.ventas # NoRutina

\* the values the caller gave for the input parameters of a routine
ArgumentosPara(m, rutina, parametros) ==
    LET normalizados == parametros_normalizados(
                            <<>>, IF parametros.t = "None" THEN <<>> ELSE parametros.items)
        entrada == SelectSeq(rutina.metadatos, LAMBDA meta : meta.modo \in {"IN", "INOUT"})
    IN  [i \in 1..Len(entrada) |->
            ConversionDeRutina(m, entrada[i], entrada[i].nombre,
                               DictGetONone(normalizados, Lower(entrada[i].nombre))).valor]

InvocaComoFuncion == sentencias[1].sql[1] \in {Texto("SELECT * FROM "), Texto("SELECT dbo.")}

MismosValores(a, b) ==
    /\ Len(a) = Len(b)
    /\ \A i \in 1..Len(a) : MismoValor(a[i], b[i])

SegunLaRutinaDeVentas(m) ==
    /\ Len(sentencias) = 1
    /\ sentencias[1].sql[2] = Identificador(<<"v", "e", "n", "t", "a", "s", ".", "f">>)
    /\ InvocaComoFuncion <=> peticion.catalogo.ventas.tipo = "FUNCTION"
    /\ MismosValores(sentencias[1].params,
                     ArgumentosPara(m, peticion.catalogo.ventas, peticion.parametros))

\* C27: for a name 'schema.routine' the routine's kind and parameters are
\* looked up in that schema and schema.routine is invoked with the caller's
\* arguments, whatever the default schema holds under the same name, in
\* every engine that has schemas
C27_EsquemaDelNombre ==
    (PideRutinaDeVentas /\ motor \in {"postgresql", "sqlserver"})
        => SegunLaRutinaDeVentas(motor)

\* PostgreSQL alone
C27_EnPostgreSQL ==
    (PideRutinaDeVentas /\ motor = "postgresql") => SegunLaRutinaDeVentas(motor)

\* SQL Server: no catalog row has the name with its prefix, the routine is
\* executed as a procedure without arguments
C27_EnSqlServerSinArgumentos ==
    (PideRutinaDeVentas /\ motor = "sqlserver")
        => /\ peticion.hallada = NoRutina
           /\ Len(sentencias) = 1
           /\ sentencias[1].sql = <<Texto("EXEC "), Identificador(<<"v", "e", "n", "t", "a", "s", ".", "f">>)>>
           /\ sentencias[1].params = <<>>


-----------------------------------------------------------------------------
(* ServicioConsultas.ejecutar_procedimiento_almacenado with an encrypt list *)
(* and values that read as numbers, booleans and dates.                     *)

ValoresPorCifrar ==
    { PyStr(<<"s", "3", "c", "r", "3", "t">>), PyStr(<<"1", "2", "3", "4">>), PyStr(<<"-", "7">>), PyStr(<<"1", "2", ".", "5">>), PyStr(<<"t", "r", "u", "e">>),
      PyStr(<<"F", "a", "l", "s", "e">>), PyStr(<<"2", "0", "2", "4", "-", "0", "1", "-", "1", "5">>), PyStr(<<"2", "0", "2", "4", "-", "0", "1", "-", "1", "5", "T", "1", "0", ":", "3", "0", ":", "0", "0">>),
      PyStr(<<>>), PyStr(<<" ", " ">>), PyStr(HashPrevio), PyInt(1234), PyNone }

ParametrosPorCifrar ==
    { PyDict(<<[k |-> k, v |-> v]>>) :
        k \in {C_clave, <<"@">> \o C_clave}, v \in ValoresPorCifrar }
    \cup { PyDict(<<[k |-> C_email, v |-> PyStr(<<"a", "@", "b">>)], [k |-> C_clave, v |-> v]>>) :
             v \in ValoresPorCifrar }

RutinaConTextoPorCifrar ==
    \E parametros \in ParametrosPorCifrar, campos \in ListasEncriptar,
       sales \in SalesRepositorio :
        Responder([datos |-> parametros.items, op |-> "rutina_cifrada", campos |-> campos],
                  ServicioConsultas_ejecutar_procedimiento_almacenado(
                      <<"s", "p", "_", "a", "l", "t", "a">>, parametros, campos, sales, Retorna(<<>>)))

InitCifradoRutinas == InitRutinas

NextCifradoRutinas == RutinaConTextoPorCifrar

SpecCifradoRutinas == InitCifradoRutinas /\ [][NextCifradoRutinas]_vars

\* the i-th parameter is named in the encrypt list and holds a non-empty
\* text that is not a hash yet
TextoPorCifrar(i) ==
    /\ peticion.datos[i].v.t = "str"
    /\ peticion.datos[i].v.v # <<>>
    /\ ~StartsWith(peticion.datos[i].v.v, PrefijoHash)
    /\ \E j \in 1..Len(peticion.campos) :
           ConArroba(peticion.campos[j]) = ConArroba(peticion.datos[i].k)

\* what the repository receives for the i-th parameter
ValorEntregado(i) == DictGet(llamadas[1].parametros, ConArroba(peticion.datos[i].k))

EntregadoComoHash(i) ==
    /\ ValorEntregado(i).t = "str"
    /\ verificar(peticion.datos[i].v.v, ValorEntregado(i).v)

\* the text reads as a datetime, an integer, a float or a boolean
SeLeeComoOtroTipo(i) == _detectar_tipo_desde_string(peticion.datos[i].v.v).t # "str"

\* C28: every parameter named in campos_a_encriptar whose value is a
\* non-empty string not already hashed reaches the repository as a bcrypt
\* hash and never as plaintext, also when the string reads as a number, a
\* boolean or a date
C28_SiempreComoHash ==
    (peticion.op = "rutina_cifrada" /\ llamadas # <<>>) =>
        \A i \in 1..Len(peticion.datos) : TextoPorCifrar(i) => EntregadoComoHash(i)

\* the texts that stay texts after _detectar_tipo are handed over hashed
C28_TextoQueSigueSiendoTexto ==
    (peticion.op = "rutina_cifrada" /\ llamadas # <<>>) =>
        \A i \in 1..Len(peticion.datos) :
            (TextoPorCifrar(i) /\ ~SeLeeComoOtroTipo(i)) => EntregadoComoHash(i)

\* the texts that read as another type are handed over as that value
C28_TextoLeidoComoOtroTipo ==
    (peticion.op = "rutina_cifrada" /\ llamadas # <<>>) =>
        \A i \in 1..Len(peticion.datos) :
            (TextoPorCifrar(i) /\ SeLeeComoOtroTipo(i))
                => MismoValor(ValorEntregado(i),
                              _detectar_tipo_desde_string(peticion.datos[i].v.v))


-----------------------------------------------------------------------------
(* The selection of the repository by DB_PROVIDER: the factory of           *)
(* servicios/fabrica_repositorios.py, the selectors of the controllers and  *)
(* the connection string ProveedorConexion yields.                          *)

\* ProveedorConexion.proveedor_actual: provider.lower().strip()
proveedor_actual(provider) == Strip(Lower(provider))

\* the settings field obtener_cadena_conexion reads for a provider, "None"
\* when the provider is not a key of cadenas
CampoDeCadena(provider) ==
    CASE provider \in {<<"p", "o", "s", "t", "g", "r", "e", "s">>, <<"p", "o", "s", "t", "g", "r", "e", "s", "q", "l">>} -> "postgres"
      [] provider = <<"s", "q", "l", "s", "e", "r", "v", "e", "r">>        -> "sqlserver"
      [] provider = <<"s", "q", "l", "s", "e", "r", "v", "e", "r", "e", "x", "p", "r", "e", "s", "s">> -> "sqlserverexpress"
      [] provider = <<"l", "o", "c", "a", "l", "d", "b">>          -> "localdb"
      [] provider = <<"m", "y", "s", "q", "l">>            -> "mysql"
      [] provider = <<"m", "a", "r", "i", "a", "d", "b">>          -> "mariadb"
      [] OTHER                          -> "None"

\* db_config: the connection string of every field
CamposDeCadena == {"postgres", "sqlserver", "sqlserverexpress", "localdb", "mysql", "mariadb"}

obtener_cadena_conexion(provider, db_config) ==
    IF CampoDeCadena(proveedor_actual(provider)) = "None" THEN Lanza("ValueError")
    ELSE IF db_config[CampoDeCadena(proveedor_actual(provider))] = <<>>
         THEN Lanza("ValueError")
    ELSE Retorna(db_config[CampoDeCadena(proveedor_actual(provider))])

\* a repository instance: its class by interface and engine
Repositorio(interfaz, m) == [interfaz |-> interfaz, motor |-> m]

\* _REPOSITORIOS_LECTURA.get / _REPOSITORIOS_CONSULTAS.get: the engine of the
\* registered class, "None" for a provider without entry
MotorRegistrado(provider) ==
    CASE provider \in {<<"s", "q", "l", "s", "e", "r", "v", "e", "r">>, <<"s", "q", "l", "s", "e", "r", "v", "e", "r", "e", "x", "p", "r", "e", "s", "s">>, <<"l", "o", "c", "a", "l", "d", "b">>} -> "sqlserver"
      [] provider = <<"p", "o", "s", "t", "g", "r", "e", "s">>                 -> "postgresql"
      [] provider \in {<<"m", "y", "s", "q", "l">>, <<"m", "a", "r", "i", "a", "d", "b">>}    -> "mysql"
      [] OTHER                                  -> "None"

crear_repositorio_lectura(provider) ==
    IF MotorRegistrado(proveedor_actual(provider)) = "None" THEN Lanza("ValueError")
    ELSE Retorna(Repositorio("lectura", MotorRegistrado(proveedor_actual(provider))))

crear_repositorio_consultas(provider) ==
    IF MotorRegistrado(proveedor_actual(provider)) = "None" THEN Lanza("ValueError")
    ELSE Retorna(Repositorio("consultas", MotorRegistrado(proveedor_actual(provider))))

\* the if/elif chain of the controllers; the else branch is SQL Server
obtener_repositorio_consultas(provider) ==
    Retorna(Repositorio("consultas",
        IF proveedor_actual(provider) = <<"p", "o", "s", "t", "g", "r", "e", "s">> THEN "postgresql"
        ELSE IF proveedor_actual(provider) \in {<<"m", "y", "s", "q", "l">>, <<"m", "a", "r", "i", "a", "d", "b">>} THEN "mysql"
        ELSE IF proveedor_actual(provider) \in {<<"s", "q", "l", "s", "e", "r", "v", "e", "r">>, <<"s", "q", "l", "s", "e", "r", "v", "e", "r", "e", "x", "p", "r", "e", "s", "s">>, <<"l", "o", "c", "a", "l", "d", "b">>}
             THEN "sqlserver"
        ELSE "sqlserver"))

Selectores ==
    { "crear_repositorio_lectura", "crear_repositorio_consultas",
      "consultas_controller", "procedimientos_controller", "estructuras_controller" }

Seleccion(selector, provider) ==
    CASE selector = "crear_repositorio_lectura"   -> crear_repositorio_lectura(provider)
      [] selector = "crear_repositorio_consultas" -> crear_repositorio_consultas(provider)
      [] OTHER                                    -> obtener_repositorio_consultas(provider)

ValoresDeDbProvider ==
    { <<"p", "o", "s", "t", "g", "r", "e", "s">>, <<"p", "o", "s", "t", "g", "r", "e", "s", "q", "l">>, <<"P", "o", "s", "t", "g", "r", "e", "S", "Q", "L">>, <<" ", "p", "o", "s", "t", "g", "r", "e", "s", " ">>, <<"s", "q", "l", "s", "e", "r", "v", "e", "r">>,
      <<"S", "q", "l", "S", "e", "r", "v", "e", "r", "E", "x", "p", "r", "e", "s", "s">>, <<"l", "o", "c", "a", "l", "d", "b">>, <<"m", "y", "s", "q", "l">>, <<"M", "a", "r", "i", "a", "D", "B">>, <<"m", "a", "r", "i", "a", "d", "b", " ">>,
      <<"o", "r", "a", "c", "l", "e">>, <<"s", "q", "l", "i", "t", "e">>, <<>> }

ConfiguracionesDeCadenas ==
    { [c \in CamposDeCadena |-> <<"d", "s", "n">>],
      [c \in CamposDeCadena |-> IF c = "postgres" THEN <<"d", "s", "n">> ELSE <<>>],
      [c \in CamposDeCadena |-> IF c \in {"sqlserver", "mysql"} THEN <<"d", "s", "n">> ELSE <<>>],
      [c \in CamposDeCadena |-> <<>>] }

\* one selector resolves the repository for the configured provider
Seleccionar(selector) ==
    \E provider \in ValoresDeDbProvider, db_config \in ConfiguracionesDeCadenas :
        ResponderRepositorio(
            [op |-> "seleccionar", fase |-> "repositorio", provider |-> provider,
             db_config |-> db_config, selector |-> selector],
            [resultado |-> Seleccion(selector, provider), sentencias |-> <<>>])

\* the repository built asks its provider for the connection string
PedirCadenaDelRepositorio ==
    /\ peticion.op = "seleccionar"
    /\ peticion.fase = "repositorio"
    /\ resultado.tipo = "ok"
    /\ peticion' = [peticion EXCEPT !.fase = "cadena"]
    /\ llamadas' = <<obtener_cadena_conexion(peticion.provider, peticion.db_config)>>
    /\ UNCHANGED <<tablas_prohibidas, motor, resultado, sentencias>>

InitSeleccion == InitRutinas

NextSeleccion ==
    \/ Seleccionar("crear_repositorio_lectura")
    \/ Seleccionar("crear_repositorio_consultas")
    \/ Seleccionar("consultas_controller")
    \/ Seleccionar("procedimientos_controller")
    \/ Seleccionar("estructuras_controller")
    \/ PedirCadenaDelRepositorio

SpecSeleccion == InitSeleccion /\ [][NextSeleccion]_vars

\* the configured provider is one for which a connection string is yielded
ProveedorConCadena ==
    /\ peticion.op = "seleccionar"
    /\ obtener_cadena_conexion(peticion.provider, peticion.db_config).tipo = "ok"

TodosResuelvenComo(m) ==
    \A s \in Selectores :
        /\ Seleccion(s, peticion.provider).tipo = "ok"
        /\ Seleccion(s, peticion.provider).valor.motor = m

\* C29: for every provider id for which the connection provider yields a
\* connection string, the CRUD factory and the selectors of the query,
\* procedure and structure controllers resolve to a repository of the same
\* engine family: none refuses the id, none routes it to another engine
C29_MismaFamilia ==
    ProveedorConCadena
        => /\ resultado.tipo = "ok"
           /\ TodosResuelvenComo(resultado.valor.motor)

\* the claim for every id but postgresql
C29_SalvoPostgresql ==
    (ProveedorConCadena /\ proveedor_actual(peticion.provider) # <<"p", "o", "s", "t", "g", "r", "e", "s", "q", "l">>)
        => /\ resultado.tipo = "ok"
           /\ TodosResuelvenComo(resultado.valor.motor)

\* postgresql: the factory refuses it and the controllers take SQL Server
C29_Postgresql ==
    (peticion.op = "seleccionar" /\ proveedor_actual(peticion.provider) = <<"p", "o", "s", "t", "g", "r", "e", "s", "q", "l">>)
        => IF peticion.selector \in {"crear_repositorio_lectura", "crear_repositorio_consultas"}
           THEN resultado = Lanza("ValueError")
           ELSE resultado = Retorna(Repositorio("consultas", "sqlserver"))


-----------------------------------------------------------------------------
(* validar_consulta_sql as ejecutar_consulta_parametrizada applies it: the  *)
(* three checks and the message of the first that fails.                    *)

ConsultaDelServicio ==
    /\ peticion.op = "ejecutar_consulta_parametrizada"
    /\ resultado # ResultadoNinguno

RechazadaCon(codigo) ==
    /\ resultado.tipo = "PermissionError"
    /\ resultado.mensaje.codigo = codigo
    /\ llamadas = <<>>

\* C30: validar_consulta_sql accepts a query exactly when it is non-blank,
\* begins (trimmed, upper-cased) with SELECT or WITH, and no deny-listed name
\* occurs in it as a case-insensitive substring, inside a longer identifier
\* or a string literal included; the first failing check, in that order,
\* determines the message
C30_TresComprobacionesEnOrden ==
    ConsultaDelServicio =>
        /\ (llamadas # <<>>) <=> (/\ ~EsBlanco(peticion.consulta)
                                  /\ EmpiezaConSelectOWith(peticion.consulta)
                                  /\ ~MencionaTablaProhibida(peticion.consulta))
        /\ EsBlanco(peticion.consulta) => RechazadaCon("vacia")
        /\ (/\ ~EsBlanco(peticion.consulta)
            /\ ~EmpiezaConSelectOWith(peticion.consulta))
               => RechazadaCon("solo_select_with")
        /\ (/\ ~EsBlanco(peticion.consulta)
            /\ EmpiezaConSelectOWith(peticion.consulta)
            /\ MencionaTablaProhibida(peticion.consulta))
               => /\ RechazadaCon("tabla_prohibida")
                  /\ Contiene(Lower(peticion.consulta), Lower(resultado.mensaje.tabla))

\* a denied name that occurs only inside a string literal
C30_Witness ==
    /\ ConsultaDelServicio
    /\ peticion.consulta = <<"S", "E", "L", "E", "C", "T", " ", "*", " ", "F", "R", "O", "M", " ">> \o T_prod \o <<" ", "W", "H", "E", "R", "E", " ", "n", " ", "=", " ", "'", "a", "u", "d", "'">>
    /\ tablas_prohibidas = <<" ">> \o T_Aud \o <<" ", ",">> \o T_cfg
    /\ RechazadaCon("tabla_prohibida")
    /\ resultado.mensaje.tabla = T_Aud

\* a denied name inside a longer identifier, in a statement that is no query:
\* the message is the one of the second check
C30_WitnessOrden ==
    /\ ConsultaDelServicio
    /\ peticion.consulta = <<"D", "E", "L", "E", "T", "E", " ", "F", "R", "O", "M", " ">> \o <<"x">> \o T_aud \o <<"s">>
    /\ tablas_prohibidas = T_aud
    /\ RechazadaCon("solo_select_with")

=============================================================================
